---- MODULE Spec2Model ----
(***************************************************************************)
(* Model of the answer-key normalisation, scoring and roster               *)
(* reconciliation engine of AnswerKeyEvaluationDEP (backend/services and   *)
(* backend/api/endpoints.py).                                              *)
(*                                                                         *)
(* Strings are TLA+ strings; a character is a string of length 1.          *)
(* Python dicts are insertion ordered: a dict is a sequence of records     *)
(* with a key field, no key appearing twice.                               *)
(* Marks are floats in the code; the model counts them in hundredths       *)
(* (100 is 1.0, 33 is 0.33), so sums are exact.                            *)
(***************************************************************************)
EXTENDS Integers, Sequences, FiniteSets, TLC

VARIABLES
    sc_key,        \* match_and_score: the answer_key argument
    sc_student,    \* match_and_score: the student_answers argument
    sc_result,     \* match_and_score: the returned StudentResult, or NONE
    current_answer_key,   \* endpoints._current_answer_key: an AnswerKey, or NONE
    key_file,             \* current_answer_key.json: its parsed JSON, or NONE when absent
    key_file_writable,    \* whether open(filename, 'w') and the write succeed
    response,             \* the last endpoint called and the HTTP status it returned
    id_raw,        \* _normalize_entry_number: the raw argument
    id_parts,      \* the year, separators, program and serial id_raw was written from
    id_once,       \* _normalize_entry_number(id_raw): <<>> is None, else <<string>>
    id_twice,      \* _normalize_entry_number applied to the string of id_once
    id_pc,         \* "raw", "once" or "twice": how far the two calls have gone
    sheet_values,  \* the roster sheet: its rows of cells, the header row first
    um_results,    \* update_marks: the results argument
    um_pc,         \* update_marks: "start", "sending", "returned" or "raised"
    um_batch,      \* update_marks: batch_data
    um_matched,    \* update_marks: matched_normalized
    um_sent,       \* update_marks: how many items of batch_data have been sent
    um_summary,    \* update_marks: summary, or NONE before it exists
    um_error,      \* update_marks: the message of the error it raised, or ""
    um_rerun,      \* whether update_marks is running again on the sheet it left
    um_first,      \* batch_data of the run before, <<>> in the first run
    dc_headers,    \* _detect_columns: the headers argument
    dc_columns,    \* _detect_columns: the returned columns, or NONE
    nm_sheet_name, \* _check_name_mismatch: the sheet_name argument
    nm_ocr_name,   \* _check_name_mismatch: the ocr_name argument
    nm_result,     \* _check_name_mismatch: <<>> for None, else <<message>>
    nm_pc,         \* _check_name_mismatch: "call" before it runs, "done" after
    ch_batch,      \* the batch update of update_marks: batch_data
    ch_chunks,     \* the chunks sent so far, in the order sent
    ch_pc,         \* "start", "loop", "done" once the loop ends, "failed" when a call raised
    ch_summary,    \* the updated and errors entries of summary
    nz_raw,        \* extract_answer_key: what the parser of the file returned or raised
    nz_result,     \* extract_answer_key: what it returned or raised, or NONE
    current_results,   \* endpoints._current_results: the results, dumped
    results_file,      \* current_results.json: its parsed JSON, or NONE when absent
    db_results,        \* what db.get_all_results() returns: the rows of the results table
    pd_pc,         \* process_drive_folder: "idle", "scoring", "done" or "refused"
    pd_sheets,     \* what OCR extracts from each student sheet of the folder
    pd_folder_key, \* what extract_answer_key makes of the folder's key file, NONE without one
    pd_idx,        \* how many student sheets the loop has gone through
    pd_results,    \* process_drive_folder: its local results
    pd_errors,     \* process_drive_folder: how many entries its local errors holds
    pd_start_key,  \* the active key when the loop over the sheets started
    cs_headers,    \* _detect_csv_columns: the headers argument
    cs_result      \* _detect_csv_columns: <<q_col, opt_col, marks_col>>, or NONE

scoreVars == <<sc_key, sc_student, sc_result>>
keyVars == <<current_answer_key, key_file, key_file_writable, response>>
idVars == <<id_raw, id_parts, id_once, id_twice, id_pc>>
rerunVars == <<um_rerun, um_first>>
sheetVars ==
    <<sheet_values, um_results, um_pc, um_batch, um_matched, um_sent, um_summary, um_error,
      rerunVars>>
colVars == <<dc_headers, dc_columns>>
nameVars == <<nm_sheet_name, nm_ocr_name, nm_result, nm_pc>>
chunkVars == <<ch_batch, ch_chunks, ch_pc, ch_summary>>
normVars == <<nz_raw, nz_result>>
resultVars == <<current_results, results_file, db_results>>
passVars == <<pd_pc, pd_sheets, pd_folder_key, pd_idx, pd_results, pd_errors, pd_start_key>>
csvVars == <<cs_headers, cs_result>>
laterVars == <<normVars, resultVars, passVars, csvVars>>
pureVars == <<colVars, nameVars, chunkVars, laterVars>>
vars == <<scoreVars, keyVars, idVars, sheetVars, pureVars>>

\* what the actions of one specification leave alone
scoreFrame == <<keyVars, idVars, sheetVars, pureVars>>
keyFrame == <<scoreVars, idVars, sheetVars, pureVars>>
idFrame == <<scoreVars, keyVars, sheetVars, pureVars>>
sheetFrame == <<scoreVars, keyVars, idVars, pureVars, rerunVars>>
colFrame == <<scoreVars, keyVars, idVars, sheetVars, nameVars, chunkVars, laterVars>>
nameFrame == <<scoreVars, keyVars, idVars, sheetVars, colVars, chunkVars, laterVars>>
chunkFrame == <<scoreVars, keyVars, idVars, sheetVars, colVars, nameVars, laterVars>>
earlierVars == <<scoreVars, keyVars, idVars, sheetVars, colVars, nameVars, chunkVars>>
normFrame == <<earlierVars, resultVars, passVars, csvVars>>
clearFrame ==
    <<scoreVars, idVars, sheetVars, colVars, nameVars, chunkVars, normVars, db_results,
      passVars, csvVars>>
exportFrame ==
    <<scoreVars, idVars, colVars, nameVars, chunkVars, normVars, passVars, csvVars,
      current_answer_key, key_file, key_file_writable, results_file, db_results>>
passFrame ==
    <<scoreVars, idVars, sheetVars, colVars, nameVars, chunkVars, normVars, csvVars,
      db_results, key_file, key_file_writable, pd_sheets, pd_folder_key>>
csvFrame == <<earlierVars, normVars, resultVars, passVars>>

NONE == [none |-> TRUE]

-----------------------------------------------------------------------------
(* Python string primitives *)

At(s, i) == SubSeq(s, i, i)

WS == {" ", "\t"}
DIGITS == {"0", "1", "2", "3", "4", "5", "6", "7", "8", "9"}
LOWERS == "abcdefghijklmnopqrstuvwxyz"
UPPERS == "ABCDEFGHIJKLMNOPQRSTUVWXYZ"

LowerSet == {At(LOWERS, i) : i \in 1..26}
UpperSet == {At(UPPERS, i) : i \in 1..26}
ToUpper == [c \in LowerSet |-> At(UPPERS, CHOOSE i \in 1..26 : At(LOWERS, i) = c)]
ToLower == [c \in UpperSet |-> At(LOWERS, CHOOSE i \in 1..26 : At(UPPERS, i) = c)]

IsDigit(c) == c \in DIGITS
IsSpace(c) == c \in WS
IsLower(c) == c \in LowerSet
IsUpper(c) == c \in UpperSet
IsAlpha(c) == IsLower(c) \/ IsUpper(c)

UpperChar(c) == IF IsLower(c) THEN ToUpper[c] ELSE c

LowerChar(c) == IF IsUpper(c) THEN ToLower[c] ELSE c

RECURSIVE PyUpper(_)
PyUpper(s) == IF s = "" THEN "" ELSE UpperChar(At(s, 1)) \o PyUpper(SubSeq(s, 2, Len(s)))

RECURSIVE PyLower(_)
PyLower(s) == IF s = "" THEN "" ELSE LowerChar(At(s, 1)) \o PyLower(SubSeq(s, 2, Len(s)))

RECURSIVE LStrip(_)
LStrip(s) == IF s # "" /\ IsSpace(At(s, 1)) THEN LStrip(SubSeq(s, 2, Len(s))) ELSE s

RECURSIVE RStrip(_)
RStrip(s) ==
    IF s # "" /\ IsSpace(At(s, Len(s))) THEN RStrip(SubSeq(s, 1, Len(s) - 1)) ELSE s

PyStrip(s) == RStrip(LStrip(s))

StartsWith(s, p) == Len(p) <= Len(s) /\ SubSeq(s, 1, Len(p)) = p

\* p in s
Contains(s, p) == \E i \in 1..(Len(s) - Len(p) + 1) : SubSeq(s, i, i + Len(p) - 1) = p

\* s.replace(old, ""), old non-empty: leftmost non-overlapping occurrences
RECURSIVE PyRemove(_, _)
PyRemove(s, old) ==
    IF s = "" THEN ""
    ELSE IF StartsWith(s, old) THEN PyRemove(SubSeq(s, Len(old) + 1, Len(s)), old)
    ELSE At(s, 1) \o PyRemove(SubSeq(s, 2, Len(s)), old)

DigitValue == [c \in DIGITS |-> CHOOSE d \in 0..9 : At("0123456789", d + 1) = c]

DigitVal(c) == DigitValue[c]

RECURSIVE DigitsVal(_)
DigitsVal(s) ==
    IF s = "" THEN 0
    ELSE 10 * DigitsVal(SubSeq(s, 1, Len(s) - 1)) + DigitVal(At(s, Len(s)))

\* s without its trailing digits
RECURSIVE RStripDigits(_)
RStripDigits(s) ==
    IF s # "" /\ IsDigit(At(s, Len(s))) THEN RStripDigits(SubSeq(s, 1, Len(s) - 1)) ELSE s

AllDigits(s) == s # "" /\ \A i \in 1..Len(s) : IsDigit(At(s, i))

\* int(s) for a str: surrounding whitespace and one sign are accepted;
\* anything else raises ValueError (ok = FALSE)
PyIntStr(s) ==
    LET t == PyStrip(s)
        signed == t # "" /\ At(t, 1) \in {"+", "-"}
        body == IF signed THEN SubSeq(t, 2, Len(t)) ELSE t
    IN  IF AllDigits(body)
        THEN [ok |-> TRUE,
              val |-> IF signed /\ At(t, 1) = "-" THEN 0 - DigitsVal(body)
                      ELSE DigitsVal(body)]
        ELSE [ok |-> FALSE, val |-> 0]

\* a dict key as the code receives it: an int or a str
IntKey(i) == [kind |-> "int", i |-> i, s |-> ""]
StrKey(s) == [kind |-> "str", i |-> 0, s |-> s]

\* int(k)
PyInt(k) == IF k.kind = "int" THEN [ok |-> TRUE, val |-> k.i] ELSE PyIntStr(k.s)

-----------------------------------------------------------------------------
(* Python dict primitives: a dict is a sequence of [key, val] records *)

DictHas(d, k) == \E i \in 1..Len(d) : d[i].key = k

DictGet(d, k) == d[CHOOSE i \in 1..Len(d) : d[i].key = k].val

\* d[k] = v: an existing key keeps its position
DictSet(d, k, v) ==
    IF DictHas(d, k)
    THEN [i \in 1..Len(d) |-> IF d[i].key = k THEN [key |-> k, val |-> v] ELSE d[i]]
    ELSE Append(d, [key |-> k, val |-> v])

DictKeys(d) == {d[i].key : i \in 1..Len(d)}

-----------------------------------------------------------------------------
(* EvaluationService.match_and_score *)

\* student_answers.get(name, default) on an optional field: <<>> is absent
GetOr(opt, default) == IF opt = <<>> THEN default ELSE opt[1]

\* option = str(v).strip().upper(); "OPTION A" -> "A"
NormalizeOption(v) ==
    LET option == PyUpper(PyStrip(v))
    IN  IF Contains(option, "OPTION") THEN PyStrip(PyRemove(option, "OPTION"))
        ELSE option

\* the loop over raw_answers.items(): keys coerced with int(), failures skipped
RECURSIVE NormalizeStudentAnswers(_, _)
NormalizeStudentAnswers(raw_answers, n) ==
    IF n = 0 THEN <<>>
    ELSE LET acc == NormalizeStudentAnswers(raw_answers, n - 1)
             q_num == PyInt(raw_answers[n].key)
         IN  IF q_num.ok
             THEN DictSet(acc, q_num.val, NormalizeOption(raw_answers[n].val))
             ELSE acc

QuestionResult(q, marked, correct, result, score) ==
    [question_number |-> q, marked |-> marked, correct |-> correct,
     result |-> result, score |-> score]

ScoreInit ==
    [total_score |-> 0, max_score |-> 0, correct_count |-> 0, incorrect_count |-> 0,
     unattempted_count |-> 0, negative_deduction |-> 0, details |-> <<>>]

\* a plausible slip: a multiply-marked question is recorded but not counted
ScoreQuestion_MultipleUncounted(acc, q_num, key_entry, student_ans, neg) ==
    LET correct_option == PyUpper(PyStrip(key_entry.correct_option))
        marks == key_entry.marks
        a == [acc EXCEPT !.max_score = @ + marks]
    IN  IF DictHas(student_ans, q_num)
        THEN LET marked == DictGet(student_ans, q_num)
             IN  IF marked = "MULTIPLE"
                 THEN [a EXCEPT !.negative_deduction = @ + neg,
                                !.total_score = @ - neg,
                                !.details = Append(@, QuestionResult(q_num, <<marked>>,
                                                correct_option, "multiple", 0 - neg))]
                 ELSE IF marked = correct_option
                 THEN [a EXCEPT !.correct_count = @ + 1,
                                !.total_score = @ + marks,
                                !.details = Append(@, QuestionResult(q_num, <<marked>>,
                                                correct_option, "correct", marks))]
                 ELSE [a EXCEPT !.incorrect_count = @ + 1,
                                !.negative_deduction = @ + neg,
                                !.total_score = @ - neg,
                                !.details = Append(@, QuestionResult(q_num, <<marked>>,
                                                correct_option, "incorrect", 0 - neg))]
        ELSE [a EXCEPT !.unattempted_count = @ + 1,
                       !.details = Append(@, QuestionResult(q_num, <<>>,
                                       correct_option, "unattempted", 0))]

\* a plausible slip: the sentinel test placed after the comparison with the key
ScoreQuestion_SentinelIsIncorrect(acc, q_num, key_entry, student_ans, neg) ==
    LET correct_option == PyUpper(PyStrip(key_entry.correct_option))
        marks == key_entry.marks
        a == [acc EXCEPT !.max_score = @ + marks]
    IN  IF DictHas(student_ans, q_num)
        THEN LET marked == DictGet(student_ans, q_num)
             IN  IF marked = correct_option
                 THEN [a EXCEPT !.correct_count = @ + 1,
                                !.total_score = @ + marks,
                                !.details = Append(@, QuestionResult(q_num, <<marked>>,
                                                correct_option, "correct", marks))]
                 ELSE [a EXCEPT !.incorrect_count = @ + 1,
                                !.negative_deduction = @ + neg,
                                !.total_score = @ - neg,
                                !.details = Append(@, QuestionResult(q_num, <<marked>>,
                                                correct_option, "incorrect", 0 - neg))]
        ELSE [a EXCEPT !.unattempted_count = @ + 1,
                       !.details = Append(@, QuestionResult(q_num, <<>>,
                                       correct_option, "unattempted", 0))]

\* the body of "for q_num, key_entry in answer_key.answers.items()";
\* marked is <<option>>, or <<>> for None
ScoreQuestion(acc, q_num, key_entry, student_ans, neg) ==
    LET correct_option == PyUpper(PyStrip(key_entry.correct_option))
        marks == key_entry.marks
        a == [acc EXCEPT !.max_score = @ + marks]
    IN  IF DictHas(student_ans, q_num)
        THEN LET marked == DictGet(student_ans, q_num)
             IN  IF marked = "MULTIPLE"
                 THEN [a EXCEPT !.incorrect_count = @ + 1,
                                !.negative_deduction = @ + neg,
                                !.total_score = @ - neg,
                                !.details = Append(@, QuestionResult(q_num, <<marked>>,
                                                correct_option, "multiple", 0 - neg))]
                 ELSE IF marked = correct_option
                 THEN [a EXCEPT !.correct_count = @ + 1,
                                !.total_score = @ + marks,
                                !.details = Append(@, QuestionResult(q_num, <<marked>>,
                                                correct_option, "correct", marks))]
                 ELSE [a EXCEPT !.incorrect_count = @ + 1,
                                !.negative_deduction = @ + neg,
                                !.total_score = @ - neg,
                                !.details = Append(@, QuestionResult(q_num, <<marked>>,
                                                correct_option, "incorrect", 0 - neg))]
        ELSE [a EXCEPT !.unattempted_count = @ + 1,
                       !.details = Append(@, QuestionResult(q_num, <<>>,
                                       correct_option, "unattempted", 0))]

RECURSIVE ScoreLoop(_, _, _)
ScoreLoop(answer_key, student_ans, n) ==
    IF n = 0 THEN ScoreInit
    ELSE ScoreQuestion(ScoreLoop(answer_key, student_ans, n - 1),
                       answer_key.answers[n].key, answer_key.answers[n].val,
                       student_ans, answer_key.negative_marking)

\* insertion of d into a list sorted by question_number, after its equals
RECURSIVE InsertByQuestion(_, _)
InsertByQuestion(sorted, d) ==
    IF sorted = <<>> THEN <<d>>
    ELSE IF sorted[Len(sorted)].question_number <= d.question_number
    THEN Append(sorted, d)
    ELSE Append(InsertByQuestion(SubSeq(sorted, 1, Len(sorted) - 1), d),
                sorted[Len(sorted)])

RECURSIVE SortPrefix(_, _)
SortPrefix(details, n) ==
    IF n = 0 THEN <<>> ELSE InsertByQuestion(SortPrefix(details, n - 1), details[n])

\* a plausible slip: the sort left out
SortDetails_Unsorted(details) == details

\* details.sort(key=lambda d: d.question_number)
SortDetails(details) == SortPrefix(details, Len(details))

\* a plausible slip: the floor left out
FloorAtZero_Raw(total_score) == total_score

\* max(total_score, 0)
FloorAtZero(total_score) == IF total_score > 0 THEN total_score ELSE 0

match_and_score(answer_key, student_answers) ==
    LET entry_number == PyStrip(GetOr(student_answers.entry_number, "unknown"))
        name == PyStrip(GetOr(student_answers.name, "unknown"))
        raw_answers == student_answers.answers
        student_ans == NormalizeStudentAnswers(raw_answers, Len(raw_answers))
        acc == ScoreLoop(answer_key, student_ans, Len(answer_key.answers))
    IN  [entry_number |-> entry_number,
         name |-> name,
         total_score |-> FloorAtZero(acc.total_score),
         max_score |-> acc.max_score,
         correct_count |-> acc.correct_count,
         incorrect_count |-> acc.incorrect_count,
         unattempted_count |-> acc.unattempted_count,
         negative_deduction |-> acc.negative_deduction,
         details |-> SortDetails(acc.details),
         comments |-> ""]

-----------------------------------------------------------------------------
(* Inputs of the scoring specification *)

MaxQ == 2        \* key question numbers are 1..MaxQ
MaxAns == 2      \* a student's raw answer dict holds at most MaxAns items

\* sequences over S of length at most n without repetition of the key field
RECURSIVE DictsOver(_, _)
DictsOver(S, n) ==
    IF n = 0 THEN {<<>>}
    ELSE LET shorter == DictsOver(S, n - 1)
         IN  shorter \cup {Append(d, e) : <<d, e>> \in
                              {p \in shorter \X S : ~DictHas(p[1], p[2].key)}}

AnswerKeyEntry(correct_option, marks) == [correct_option |-> correct_option, marks |-> marks]

EntryKinds == {AnswerKeyEntry("A", 100), AnswerKeyEntry("MULTIPLE", 200)}

NegativeMarkings == {0, 150}

\* AnswerKey.metadata: each of its entries is <<value>>, or <<>> when not set
Metadata(source_file, source, raw_question_count, parsed_question_count) ==
    [source_file |-> source_file, source |-> source,
     raw_question_count |-> raw_question_count,
     parsed_question_count |-> parsed_question_count]

AnswerKey(answers, negative_marking, metadata) ==
    [total_questions |-> Len(answers), answers |-> answers,
     negative_marking |-> negative_marking, metadata |-> metadata]

ScoreKeys ==
    {AnswerKey(a, neg, Metadata(<<>>, <<"manual_input">>, <<>>, <<>>)) :
        a \in DictsOver({[key |-> q, val |-> e] : q \in 1..MaxQ, e \in EntryKinds}, MaxQ),
        neg \in NegativeMarkings}

RawAnswerKeys == {IntKey(1), StrKey(" 1"), StrKey("2"), StrKey("Q1"), IntKey(MaxQ + 1)}
RawAnswerVals == {"a", " option b", "MULTIPLE"}

ScoreStudents ==
    {[entry_number |-> <<" 2023csb1122 ">>, name |-> <<>>, answers |-> a] :
        a \in DictsOver({[key |-> k, val |-> v] : k \in RawAnswerKeys, v \in RawAnswerVals},
                        MaxAns)}

ScoreIdle == sc_key = NONE /\ sc_student = NONE /\ sc_result = NONE

KeyIdle ==
    /\ current_answer_key = NONE /\ key_file = NONE /\ response = NONE
    /\ key_file_writable = TRUE

IdIdle ==
    id_raw = "" /\ id_parts = NONE /\ id_once = <<>> /\ id_twice = <<>> /\ id_pc = "idle"

ColIdle == dc_headers = <<>> /\ dc_columns = NONE

NameIdle == nm_sheet_name = "" /\ nm_ocr_name = "" /\ nm_result = <<>> /\ nm_pc = "idle"

ChunkIdle == ch_batch = <<>> /\ ch_chunks = <<>> /\ ch_pc = "idle" /\ ch_summary = NONE

NormIdle == nz_raw = NONE /\ nz_result = NONE

ResultIdle == current_results = <<>> /\ results_file = NONE /\ db_results = <<>>

PassIdle ==
    /\ pd_pc = "idle" /\ pd_sheets = <<>> /\ pd_folder_key = NONE /\ pd_idx = 0
    /\ pd_results = <<>> /\ pd_errors = 0 /\ pd_start_key = NONE

CsvIdle == cs_headers = <<>> /\ cs_result = NONE

LaterIdle == NormIdle /\ ResultIdle /\ PassIdle /\ CsvIdle

SheetIdle ==
    /\ sheet_values = <<>> /\ um_results = <<>> /\ um_pc = "idle" /\ um_batch = <<>>
    /\ um_matched = {} /\ um_sent = 0 /\ um_summary = NONE /\ um_error = ""
    /\ um_rerun = FALSE /\ um_first = <<>>
    /\ ColIdle /\ NameIdle /\ ChunkIdle /\ LaterIdle

InitScore ==
    /\ sc_key \in ScoreKeys
    /\ sc_student \in ScoreStudents
    /\ sc_result = NONE
    /\ KeyIdle
    /\ IdIdle
    /\ SheetIdle

Score ==
    /\ sc_key # NONE
    /\ sc_result = NONE
    /\ sc_result' = match_and_score(sc_key, sc_student)
    /\ UNCHANGED <<sc_key, sc_student, scoreFrame>>

NextScore == Score

SpecScore == InitScore /\ [][NextScore]_vars

-----------------------------------------------------------------------------
(* Claims about match_and_score, checked under SpecScore *)

Scored == sc_result # NONE

KeyQuestions == DictKeys(sc_key.answers)

DetailsWith(results) ==
    {i \in 1..Len(sc_result.details) : sc_result.details[i].result \in results}

\* the raw answers of the student whose key coerces to question q
RawFor(q) ==
    {i \in 1..Len(sc_student.answers) :
        /\ PyInt(sc_student.answers[i].key).ok
        /\ PyInt(sc_student.answers[i].key).val = q}

MaxOf(S) == CHOOSE x \in S : \A y \in S : y <= x

\* the student's normalized answer to q: the last raw answer given for q
AnswerTo(q) == NormalizeOption(sc_student.answers[MaxOf(RawFor(q))].val)

RECURSIVE SumMarks(_, _)
SumMarks(answers, Q) ==
    IF answers = <<>> THEN 0
    ELSE (IF answers[1].key \in Q THEN answers[1].val.marks ELSE 0)
         + SumMarks(Tail(answers), Q)

\* C1: correct_count + incorrect_count + unattempted_count equals the key's
\* total_questions, a question answered with the MULTIPLE sentinel being one of
\* the incorrect_count.
C1_CountsPartitionKey ==
    Scored =>
        /\ sc_result.correct_count + sc_result.incorrect_count
             + sc_result.unattempted_count = sc_key.total_questions
        /\ sc_result.incorrect_count = Cardinality(DetailsWith({"incorrect", "multiple"}))

C1_Witness ==
    /\ Scored
    /\ DetailsWith({"multiple"}) # {}
    /\ sc_result.correct_count + sc_result.unattempted_count > 0
    /\ \E i \in 1..Len(sc_student.answers) : sc_student.answers[i].key.kind = "str"

\* C2: total_score is max(0, marks of the questions classified correct minus
\* negative_marking times the number classified incorrect or multiple), and
\* max_score is the sum of the marks of all key questions.
C2_RawScore ==
    SumMarks(sc_key.answers,
             {sc_result.details[i].question_number : i \in DetailsWith({"correct"})})
    - sc_key.negative_marking * Cardinality(DetailsWith({"incorrect", "multiple"}))

C2_TotalScoreFloored ==
    Scored =>
        /\ sc_result.total_score = (IF C2_RawScore > 0 THEN C2_RawScore ELSE 0)
        /\ sc_result.total_score >= 0
        /\ sc_result.max_score = SumMarks(sc_key.answers, KeyQuestions)

C2_Witness ==
    /\ Scored
    /\ C2_RawScore < 0
    /\ sc_result.correct_count > 0
    /\ sc_result.total_score = 0

\* C3: each key question is classified by the student's normalized answer:
\* none -> unattempted, 0; the MULTIPLE sentinel -> multiple, -negative_marking;
\* else equal to the key's option ignoring case -> correct, the entry's marks;
\* else incorrect, -negative_marking.
C3_Expected(q, entry) ==
    IF RawFor(q) = {} THEN <<"unattempted", 0>>
    ELSE IF AnswerTo(q) = "MULTIPLE" THEN <<"multiple", 0 - sc_key.negative_marking>>
    ELSE IF PyLower(AnswerTo(q)) = PyLower(entry.correct_option)
    THEN <<"correct", entry.marks>>
    ELSE <<"incorrect", 0 - sc_key.negative_marking>>

C3_ClassifiedByAnswer ==
    Scored =>
        \A i \in 1..Len(sc_key.answers) :
            \E j \in 1..Len(sc_result.details) :
                /\ sc_result.details[j].question_number = sc_key.answers[i].key
                /\ <<sc_result.details[j].result, sc_result.details[j].score>>
                     = C3_Expected(sc_key.answers[i].key, sc_key.answers[i].val)

C3_Witness ==
    /\ Scored
    /\ sc_key.negative_marking > 0
    /\ \E j \in DetailsWith({"multiple"}) : sc_result.details[j].score < 0
    /\ \E j \in DetailsWith({"correct"}) :
          sc_result.details[j].marked # <<sc_student.answers[1].val>>

\* C4: details holds exactly one QuestionResult per key question and none for
\* other questions, in strictly ascending question_number order whatever the
\* order of the key's entries; answers to questions outside the key change no
\* field of the result.
C4_InKeyOnly ==
    [sc_student EXCEPT !.answers =
        SelectSeq(@, LAMBDA a : ~PyInt(a.key).ok \/ PyInt(a.key).val \in KeyQuestions)]

C4_DetailsFollowKey ==
    Scored =>
        /\ Len(sc_result.details) = Len(sc_key.answers)
        /\ {sc_result.details[j].question_number : j \in 1..Len(sc_result.details)}
             = KeyQuestions
        /\ \A j \in 1..(Len(sc_result.details) - 1) :
              sc_result.details[j].question_number
                < sc_result.details[j + 1].question_number
        /\ sc_result = match_and_score(sc_key, C4_InKeyOnly)

C4_Witness ==
    /\ Scored
    /\ Len(sc_key.answers) >= 2
    /\ sc_key.answers[1].key > sc_key.answers[2].key
    /\ C4_InKeyOnly # sc_student

-----------------------------------------------------------------------------
(* AnswerKeyService: _normalize, save_to_disk, load_from_disk *)

\* str(i) for an int
RECURSIVE NatToStr(_)
NatToStr(n) ==
    IF n < 10 THEN At("0123456789", n + 1)
    ELSE NatToStr(n \div 10) \o At("0123456789", (n % 10) + 1)

PyStr(i) == IF i < 0 THEN "-" \o NatToStr(0 - i) ELSE NatToStr(i)

\* the values of a parsed source's "answers": a plain option string, a
\* {correct_option, marks} dict, or a value of another type
StrValue(s) == [kind |-> "str", option |-> s, marks |-> 100]
DictValue(correct_option, marks) == [kind |-> "dict", option |-> correct_option, marks |-> marks]
OtherValue == [kind |-> "other", option |-> "", marks |-> 0]

Raised(error) == [raised |-> TRUE, error |-> error]
Returned(value) == [raised |-> FALSE, value |-> value]

\* the loop of _normalize over raw_answers.items(); int(key) is not guarded,
\* so a key that does not coerce raises out of the loop
RECURSIVE NormalizeLoop(_, _)
NormalizeLoop(raw_answers, n) ==
    IF n = 0 THEN Returned(<<>>)
    ELSE LET before == NormalizeLoop(raw_answers, n - 1)
             q_num == PyInt(raw_answers[n].key)
             value == raw_answers[n].val
             option == PyUpper(PyStrip(value.option))
         IN  IF before.raised THEN before
             ELSE IF ~q_num.ok THEN Raised("ValueError")
             ELSE IF value.kind = "other" THEN before
             ELSE IF option # ""
             THEN Returned(DictSet(before.value, q_num.val,
                                   AnswerKeyEntry(option, value.marks)))
             ELSE before

\* _normalize(raw, source_file)
Normalize(raw, source_file) ==
    LET loop == NormalizeLoop(raw.answers, Len(raw.answers))
    IN  IF loop.raised THEN loop
        ELSE IF loop.value = <<>> THEN Raised("ValueError")
        ELSE Returned(AnswerKey(loop.value, GetOr(raw.negative_marking, 0),
                        Metadata(<<source_file>>, <<>>, <<Len(raw.answers)>>,
                                 <<Len(loop.value)>>)))

\* answer_key.model_dump_json(): the int keys of answers become JSON strings
ModelDumpJson(answer_key) ==
    [answer_key EXCEPT !.answers =
        [i \in 1..Len(@) |-> [key |-> PyStr(@[i].key), val |-> @[i].val]]]

\* the loop of load_from_disk: converted_answers[int(k)] = AnswerKeyEntry(**v)
RECURSIVE ConvertAnswers(_, _)
ConvertAnswers(answers_data, n) ==
    IF n = 0 THEN <<>>
    ELSE DictSet(ConvertAnswers(answers_data, n - 1),
                 PyIntStr(answers_data[n].key).val, answers_data[n].val)

\* a file that open(filename, 'w') has truncated and the write did not fill
UNREADABLE == [unreadable |-> TRUE]

\* save_to_disk(answer_key): the contents of the file after the call. The
\* write is inside try/except and a failure is only printed: the file is as
\* it was when open() fails, and cut short when the write fails
save_to_disk(file, answer_key, writable) ==
    IF writable THEN {ModelDumpJson(answer_key)} ELSE {file, UNREADABLE}

\* load_from_disk(): None when the file is absent or cannot be read back
load_from_disk(file) ==
    IF file = NONE THEN NONE
    ELSE IF file = UNREADABLE THEN NONE
    ELSE IF \E i \in 1..Len(file.answers) : ~PyIntStr(file.answers[i].key).ok THEN NONE
    ELSE [total_questions |-> file.total_questions,
          answers |-> ConvertAnswers(file.answers, Len(file.answers)),
          negative_marking |-> file.negative_marking,
          metadata |-> file.metadata]

\* extract_answer_key(file_path, mime_type) on a file whose parser gave `parsed`
\* (Raised when the format is unsupported or the parser failed)
extract_answer_key(parsed, source_file) ==
    IF parsed.raised THEN parsed ELSE Normalize(parsed.value, source_file)

\* the loop of set_answer_key_manual over raw_answers.items()
RECURSIVE ManualLoop(_, _, _)
ManualLoop(raw_answers, marks, n) ==
    IF n = 0 THEN Returned(<<>>)
    ELSE LET before == ManualLoop(raw_answers, marks, n - 1)
             q_num == PyInt(raw_answers[n].key)
         IN  IF before.raised THEN before
             ELSE IF ~q_num.ok THEN Raised("ValueError")
             ELSE Returned(DictSet(before.value, q_num.val,
                     AnswerKeyEntry(PyUpper(PyStrip(raw_answers[n].val)), marks)))

\* the AnswerKey set_answer_key_manual builds from its JSON body
ManualKey(body) ==
    LET parsed == ManualLoop(body.answers, GetOr(body.marks_per_question, 100),
                             Len(body.answers))
    IN  IF parsed.raised THEN parsed
        ELSE Returned(AnswerKey(parsed.value, GetOr(body.negative_marking, 0),
                                Metadata(<<>>, <<"manual_input">>, <<>>, <<>>)))

-----------------------------------------------------------------------------
(* The endpoints that install, read and clear the active answer key *)

MaxRaw == 2      \* a parsed key source or a manual body holds at most MaxRaw items

RawQuestionKeys == {StrKey("1"), StrKey("01"), IntKey(2), StrKey("0"), StrKey("Q3")}
RawKeyValues == {StrValue(" a"), StrValue(""), DictValue("b", 200), OtherValue}

\* what a format-specific parser hands to _normalize, or its failure
ParsedSources ==
    {Raised("ValueError")} \cup
    {Returned([answers |-> a, negative_marking |-> neg]) :
        a \in DictsOver({[key |-> k, val |-> v] : k \in RawQuestionKeys, v \in RawKeyValues},
                        MaxRaw),
        neg \in {<<>>, <<33>>}}

ManualBodies ==
    {[answers |-> a, marks_per_question |-> m, negative_marking |-> <<>>] :
        a \in DictsOver({[key |-> k, val |-> v] :
                            k \in {StrKey("1"), StrKey("01"), StrKey("-2"), StrKey("Q3")},
                            v \in {" a", "b"}}, MaxRaw),
        m \in {<<>>, <<200>>}}

\* what extract_answer_key returns or raises, over all parsed sources
ExtractOutcomes == {extract_answer_key(parsed, "answer_key.csv") : parsed \in ParsedSources}

\* what set_answer_key_manual builds or raises, over all bodies
ManualOutcomes == {ManualKey(body) : body \in ManualBodies}

Respond(op, status) == [op |-> op, status |-> status]

InitKey ==
    /\ current_answer_key = NONE
    /\ key_file = NONE
    /\ key_file_writable \in BOOLEAN
    /\ response = NONE
    /\ ScoreIdle
    /\ IdIdle
    /\ SheetIdle

\* the tail of extract_from_drive and upload: extract_answer_key, then the
\* assignment; an exception becomes a 500 and nothing is assigned or saved
InstallFromFile(op, got) ==
    IF got.raised
    THEN /\ response' = Respond(op, 500)
         /\ UNCHANGED <<current_answer_key, key_file>>
    ELSE /\ current_answer_key' = got.value
         /\ key_file' \in save_to_disk(key_file, got.value, key_file_writable)
         /\ response' = Respond(op, 200)

\* POST /answer-key/extract-from-drive on a folder that holds a key file
ExtractFromDrive ==
    /\ \E got \in ExtractOutcomes : InstallFromFile("extract-from-drive", got)
    /\ UNCHANGED <<key_file_writable, keyFrame>>

\* POST /answer-key/extract-from-drive on a folder with no files or no key file
ExtractFromDriveNoFile ==
    /\ response' = Respond("extract-from-drive", 404)
    /\ UNCHANGED <<current_answer_key, key_file, key_file_writable, keyFrame>>

\* POST /answer-key/upload
UploadAnswerKey ==
    /\ \E got \in ExtractOutcomes : InstallFromFile("upload", got)
    /\ UNCHANGED <<key_file_writable, keyFrame>>

\* POST /sync-drive on a folder that holds a key file: a failure is only printed
SyncDrive ==
    /\ \E got \in ExtractOutcomes :
          IF got.raised
          THEN UNCHANGED <<current_answer_key, key_file>>
          ELSE /\ current_answer_key' = got.value
               /\ key_file' \in save_to_disk(key_file, got.value, key_file_writable)
    /\ response' = Respond("sync-drive", 200)
    /\ UNCHANGED <<key_file_writable, keyFrame>>

\* POST /answer-key/set-manual with a body whose key, or failure, is in outcomes
SetManual(outcomes) ==
    /\ \E got \in outcomes :
          IF got.raised
          THEN /\ response' = Respond("set-manual", 500)
               /\ UNCHANGED <<current_answer_key, key_file>>
          ELSE /\ current_answer_key' = got.value
               /\ key_file' \in save_to_disk(key_file, got.value, key_file_writable)
               /\ response' = Respond("set-manual", 200)
    /\ UNCHANGED <<key_file_writable, keyFrame>>

\* POST /answer-key/set-manual
SetAnswerKeyManual == SetManual(ManualOutcomes)

\* GET /answer-key: the key is reloaded from disk when none is in memory
GetCurrentAnswerKey ==
    /\ current_answer_key' =
          IF current_answer_key = NONE THEN load_from_disk(key_file)
          ELSE current_answer_key
    /\ response' = Respond("answer-key", IF current_answer_key' = NONE THEN 404 ELSE 200)
    /\ UNCHANGED <<key_file, key_file_writable, keyFrame>>

\* DELETE /results/clear
ClearResults ==
    /\ current_answer_key' = NONE
    /\ current_results' = <<>>
    /\ key_file' = NONE
    /\ results_file' = NONE
    /\ response' = Respond("clear", 200)
    /\ UNCHANGED <<key_file_writable, clearFrame>>

\* a process restart: the module-level code of endpoints.py runs again
Restart ==
    /\ current_answer_key' = load_from_disk(key_file)
    /\ response' = NONE
    /\ UNCHANGED <<key_file, key_file_writable, keyFrame>>

NextKey ==
    \/ ExtractFromDrive
    \/ ExtractFromDriveNoFile
    \/ UploadAnswerKey
    \/ SyncDrive
    \/ SetAnswerKeyManual
    \/ GetCurrentAnswerKey
    \/ ClearResults
    \/ Restart

SpecKey == InitKey /\ [][NextKey]_vars

-----------------------------------------------------------------------------
(* Claims about the active answer key, checked under SpecKey *)

HasKey == current_answer_key # NONE

\* C5: every active key has total_questions equal to the number of its
\* entries, and every question number is a positive integer appearing once.
C5_ActiveKeyWellFormed ==
    HasKey =>
        /\ current_answer_key.total_questions = Len(current_answer_key.answers)
        /\ \A i \in 1..Len(current_answer_key.answers) :
              /\ current_answer_key.answers[i].key > 0
              /\ \A j \in 1..Len(current_answer_key.answers) :
                    current_answer_key.answers[i].key = current_answer_key.answers[j].key
                      => i = j

\* C6: the active key, if there is one, has at least one question.
C6_ActiveKeyNonEmpty ==
    HasKey => Len(current_answer_key.answers) >= 1

-----------------------------------------------------------------------------
(* SheetsService._normalize_entry_number *)

MinFallbackLength == 6

\* the character classes of ENTRY_NUMBER_PATTERN: \d, \s and [A-Za-z]
InClass(c, class) ==
    CASE class = "d" -> IsDigit(c)
      [] class = "s" -> IsSpace(c)
      [] class = "A-Za-z" -> IsAlpha(c)

\* how many characters from position j on are of the class
RECURSIVE Run(_, _, _)
Run(s, j, class) ==
    IF j <= Len(s) /\ InClass(At(s, j), class) THEN 1 + Run(s, j + 1, class) ELSE 0

Min(a, b) == IF a < b THEN a ELSE b

\* the ways (\d{4})\s*([A-Za-z]{2,4})\s*(\d{2,5}) matches at position i, as
\* <<spaces, letters, spaces, digits>> lengths
EntryPatternMatches(s, i) ==
    IF Run(s, i, "d") < 4 THEN {}
    ELSE UNION {UNION {UNION {
            {<<a, l, b, d>> : d \in 2..Min(5, Run(s, i + 4 + a + l + b, "d"))} :
              b \in 0..Run(s, i + 4 + a + l, "s")} :
              l \in 2..Min(4, Run(s, i + 4 + a, "A-Za-z"))} :
              a \in 0..Run(s, i + 4, "s")}

LexGreater(x, y) ==
    \E k \in 1..4 : x[k] > y[k] /\ \A h \in 1..(k - 1) : x[h] = y[h]

\* the groups of the match m that starts at position i
EntryGroups(s, i, m) ==
    [year |-> SubSeq(s, i, i + 3),
     branch |-> SubSeq(s, i + 4 + m[1], i + 4 + m[1] + m[2] - 1),
     number |-> SubSeq(s, i + 4 + m[1] + m[2] + m[3],
                       i + 4 + m[1] + m[2] + m[3] + m[4] - 1)]

\* of the matches at one position, the one the greedy quantifiers prefer
GreedyMatch(matches) ==
    CHOOSE x \in matches : \A y \in matches : ~LexGreater(y, x)

LeftmostMatch(s, starts) ==
    IF starts = {} THEN <<>>
    ELSE \* the one element of the set is the match at the least start
         CHOOSE r \in {<<EntryGroups(s, i, GreedyMatch(EntryPatternMatches(s, i)))>> :
                          i \in {x \in starts : \A y \in starts : x <= y}} : TRUE

\* ENTRY_NUMBER_PATTERN.search(s): the leftmost position that matches and, there,
\* the match the greedy quantifiers prefer; <<>> when there is none
EntryPatternSearch(s) ==
    LeftmostMatch(s, {i \in 1..Len(s) : EntryPatternMatches(s, i) # {}})

\* re.sub(r'[\s\-_./]', '', s)
RECURSIVE RemoveSeparators(_)
RemoveSeparators(s) ==
    IF s = "" THEN ""
    ELSE (IF IsSpace(At(s, 1)) \/ At(s, 1) \in {"-", "_", ".", "/"} THEN "" ELSE At(s, 1))
         \o RemoveSeparators(SubSeq(s, 2, Len(s)))

\* a plausible slip: the fallback not upper-cased
EntryFallback_CaseKept(clean) ==
    LET fallback == RemoveSeparators(clean)
    IN  IF Len(fallback) >= MinFallbackLength THEN <<fallback>> ELSE <<>>

\* the strip-and-uppercase fallback
EntryFallback(clean) ==
    LET fallback == PyUpper(RemoveSeparators(clean))
    IN  IF Len(fallback) >= MinFallbackLength THEN <<fallback>> ELSE <<>>

\* the return of _normalize_entry_number for the stripped string and its match m
NormalizeClean(clean, m) ==
    IF m # <<>>
    THEN <<m[1].year \o PyUpper(m[1].branch) \o m[1].number>>
    ELSE EntryFallback(clean)

\* _normalize_entry_number(raw): <<>> is None
normalize_entry_number(raw) ==
    IF raw = "" \/ PyLower(raw) \in {"unknown", "none", "n/a", ""} THEN <<>>
    ELSE NormalizeClean(PyStrip(raw), EntryPatternSearch(PyStrip(raw)))

-----------------------------------------------------------------------------
(* SheetsService: column detection and name cross-verification *)

ENTRY_NUMBER_ALIASES ==
    {"entry number", "entry_number", "entry no", "entry no.",
     "roll number", "roll_number", "roll no", "roll no.",
     "enrollment", "enrollment number", "enrollment no",
     "id", "student id", "student_id", "reg number",
     "registration number", "reg no", "reg no."}

NAME_ALIASES ==
    {"name", "student name", "student_name", "full name", "full_name", "candidate name"}

MARKS_ALIASES ==
    {"marks", "mark", "score", "total", "grade", "result",
     "total marks", "total_marks", "total score", "total_score",
     "obtained marks", "obtained_marks", "marks obtained"}

COMMENTS_ALIASES ==
    {"comments", "comment", "remarks", "remark", "feedback", "notes",
     "observation", "observations", "issues", "issue"}

\* _index_to_letter(index): 0 -> "A", 25 -> "Z", 26 -> "AA"
RECURSIVE IndexToLetter(_)
IndexToLetter(index) ==
    IF index \div 26 - 1 < 0 THEN At(UPPERS, (index % 26) + 1)
    ELSE IndexToLetter(index \div 26 - 1) \o At(UPPERS, (index % 26) + 1)

ColumnRef(idx, header_raw) ==
    [index |-> idx, letter |-> IndexToLetter(idx), header |-> header_raw]

\* the match of h whose last digits characters are its digits, after prefix p
QuestionPrefixFits(h, digits, p) ==
    /\ StartsWith(h, p)
    /\ Len(p) + digits <= Len(h)
    /\ \A i \in (Len(p) + 1)..(Len(h) - digits) :
          IsSpace(At(h, i)) \/ At(h, i) \in {".", "-", "_"}

QuestionNumber(h, digits) ==
    IF digits >= 1 /\ \E p \in {"q", "ques", "question", ""} : QuestionPrefixFits(h, digits, p)
    THEN <<DigitsVal(SubSeq(h, Len(h) - digits + 1, Len(h)))>>
    ELSE <<>>

\* QUESTION_COLUMN_PATTERN.match(h) on a lower-cased header:
\* ^(?:q|ques|question)?[\s\.\-\_]*(\d+)$ ; <<int(group 1)>>, or <<>>
QuestionColumnMatch(h) == QuestionNumber(h, Len(h) - Len(RStripDigits(h)))

NoColumns ==
    [entry_number |-> <<>>, name |-> <<>>, marks |-> <<>>, comments |-> <<>>,
     questions |-> <<>>]

\* whether h contains one of the aliases
ContainsAlias(h, aliases) == \E a \in aliases : Contains(h, a)

\* a plausible slip: a header that contains an alias is taken for the role
ClassifyColumn_SubstringAlias(columns, ref, h, m, stripped) ==
    IF columns.entry_number = <<>> /\ ContainsAlias(h, ENTRY_NUMBER_ALIASES)
    THEN [columns EXCEPT !.entry_number = <<ref>>]
    ELSE IF columns.name = <<>> /\ ContainsAlias(h, NAME_ALIASES)
    THEN [columns EXCEPT !.name = <<ref>>]
    ELSE IF columns.marks = <<>> /\ ContainsAlias(h, MARKS_ALIASES)
    THEN [columns EXCEPT !.marks = <<ref>>]
    ELSE IF columns.comments = <<>> /\ ContainsAlias(h, COMMENTS_ALIASES)
    THEN [columns EXCEPT !.comments = <<ref>>]
    ELSE IF m # <<>>
    THEN [columns EXCEPT !.questions = DictSet(@, m[1], ref)]
    ELSE columns

\* a plausible slip: a later alias of a role replaces the header the role holds
ClassifyColumn_LastAliasWins(columns, ref, h, m, stripped) ==
    IF h \in ENTRY_NUMBER_ALIASES THEN [columns EXCEPT !.entry_number = <<ref>>]
    ELSE IF h \in NAME_ALIASES THEN [columns EXCEPT !.name = <<ref>>]
    ELSE IF h \in MARKS_ALIASES THEN [columns EXCEPT !.marks = <<ref>>]
    ELSE IF h \in COMMENTS_ALIASES THEN [columns EXCEPT !.comments = <<ref>>]
    ELSE IF m # <<>> THEN [columns EXCEPT !.questions = DictSet(@, m[1], ref)]
    ELSE columns

\* steps 1 to 6 of the loop body, h being norm(header_raw) and m the pattern's match
ClassifyColumn(columns, ref, h, m, stripped) ==
    IF columns.entry_number = <<>> /\ h \in ENTRY_NUMBER_ALIASES
    THEN [columns EXCEPT !.entry_number = <<ref>>]
    ELSE IF columns.name = <<>> /\ h \in NAME_ALIASES
    THEN [columns EXCEPT !.name = <<ref>>]
    ELSE IF columns.marks = <<>> /\ h \in MARKS_ALIASES
    THEN [columns EXCEPT !.marks = <<ref>>]
    ELSE IF columns.comments = <<>> /\ h \in COMMENTS_ALIASES
    THEN [columns EXCEPT !.comments = <<ref>>]
    ELSE IF m # <<>>
    THEN [columns EXCEPT !.questions = DictSet(@, m[1], ref)]
    ELSE IF AllDigits(stripped) /\ ~DictHas(columns.questions, DigitsVal(stripped))
    THEN [columns EXCEPT !.questions = DictSet(@, DigitsVal(stripped), ref)]
    ELSE columns

\* the body of the loop of _detect_columns for the header at 0-based index idx
DetectColumn(columns, idx, header_raw) ==
    ClassifyColumn(columns, ColumnRef(idx, header_raw), PyLower(PyStrip(header_raw)),
                   QuestionColumnMatch(PyLower(PyStrip(header_raw))), PyStrip(header_raw))

RECURSIVE DetectColumnsUpTo(_, _)
DetectColumnsUpTo(headers, n) ==
    IF n = 0 THEN NoColumns
    ELSE DetectColumn(DetectColumnsUpTo(headers, n - 1), n - 1, headers[n])

\* _detect_columns(headers)
detect_columns(headers) == DetectColumnsUpTo(headers, Len(headers))

\* set(s.split()): the maximal runs of non-whitespace characters
Tokens(s) ==
    {SubSeq(s, i, j) : <<i, j>> \in
        {p \in (1..Len(s)) \X (1..Len(s)) :
            /\ p[1] <= p[2]
            /\ \A k \in p[1]..p[2] : ~IsSpace(At(s, k))
            /\ (p[1] = 1 \/ IsSpace(At(s, p[1] - 1)))
            /\ (p[2] = Len(s) \/ IsSpace(At(s, p[2] + 1)))}}

\* a plausible slip: tokens of any length are looked for in the other name
NamesDiffer_ShortTokensCount(sn, o, s_parts, o_parts) ==
    ~ \/ sn = "" \/ o = "" \/ sn = "unknown" \/ o = "unknown"
      \/ sn = o
      \/ s_parts \cap o_parts # {}
      \/ Contains(o, sn) \/ Contains(sn, o)
      \/ \E word \in s_parts : Contains(o, word)
      \/ \E word \in o_parts : Contains(sn, word)

\* the tests of _check_name_mismatch on the stripped, lower-cased names
NamesDiffer(sn, o, s_parts, o_parts) ==
    ~ \/ sn = "" \/ o = "" \/ sn = "unknown" \/ o = "unknown"
      \/ sn = o
      \/ s_parts \cap o_parts # {}
      \/ Contains(o, sn) \/ Contains(sn, o)
      \/ \E word \in s_parts : Len(word) >= 3 /\ Contains(o, word)
      \/ \E word \in o_parts : Len(word) >= 3 /\ Contains(sn, word)

NamesCleanedDiffer(sn, o) == NamesDiffer(sn, o, Tokens(sn), Tokens(o))

\* _check_name_mismatch(sheet_name, ocr_name, ...): <<>> is None, else <<message>>
check_name_mismatch(sheet_name, ocr_name) ==
    IF sheet_name # "" /\ ocr_name # ""
       /\ NamesCleanedDiffer(PyLower(PyStrip(sheet_name)), PyLower(PyStrip(ocr_name)))
    THEN <<"Name mismatch: Sheet='" \o sheet_name \o "' vs OCR='" \o ocr_name \o "'">>
    ELSE <<>>

-----------------------------------------------------------------------------
(* SheetsService: read_student_list and update_marks *)

\* _safe_get(lst, idx, default); idx is <<>> for None, else <<0-based index>>
SafeGet(lst, idx, default) ==
    IF idx = <<>> \/ idx[1] >= Len(lst) THEN default ELSE lst[idx[1] + 1]

\* columns.get(role, {}).get('index')
ColumnIndex(col) == IF col = <<>> THEN <<>> ELSE <<col[1].index>>

\* columns.get(role, {}).get('letter')
ColumnLetter(col) == IF col = <<>> THEN <<>> ELSE <<col[1].letter>>

Student(row, entry_number, name, existing_comment) ==
    [row |-> row, entry_number |-> entry_number, name |-> name,
     existing_comment |-> existing_comment]

\* students.append(...) unless the stripped identifier cell is empty
AppendStudent(students, row_idx, entry_number, name, existing_comment) ==
    IF entry_number = "" THEN students
    ELSE Append(students, Student(row_idx, entry_number, name, existing_comment))

\* the loop of read_student_list over values[1:], rows numbered from 2
RECURSIVE ReadStudents(_, _, _)
ReadStudents(values, columns, n) ==
    IF n <= 1 THEN <<>>
    ELSE AppendStudent(
             ReadStudents(values, columns, n - 1), n,
             PyStrip(SafeGet(values[n], ColumnIndex(columns.entry_number), "")),
             IF columns.name # <<>>
             THEN PyStrip(SafeGet(values[n], ColumnIndex(columns.name), ""))
             ELSE "",
             IF columns.comments # <<>>
             THEN SafeGet(values[n], ColumnIndex(columns.comments), "")
             ELSE "")

\* a plausible slip: a roster without identifier column is read as one without rows
StudentList_NoIdentifierTolerated(values, columns) ==
    Returned([columns |-> columns,
              students |-> ReadStudents(values, columns, Len(values))])

\* read_student_list once the header row is classified
StudentList(values, columns) ==
    IF columns.entry_number = <<>>
    THEN Raised("Could not detect entry number column.")
    ELSE Returned([columns |-> columns,
                   students |-> ReadStudents(values, columns, Len(values))])

\* read_student_list, from the values the sheet holds
read_student_list(values) ==
    IF Len(values) < 2 THEN Raised("Sheet is empty or has no data rows")
    ELSE StudentList(values, detect_columns(values[1]))

\* a value sent to a cell: a number (in hundredths of a mark) or a string
NumValue(n) == [kind |-> "num", n |-> n, s |-> ""]
TextValue(s) == [kind |-> "str", n |-> 0, s |-> s]

\* an item of batch_data: the range COLUMN-LETTER ROW of the sheet, and the value
Write(col_letter, row, value) == [col |-> col_letter, row |-> row, value |-> value]

\* a plausible slip: the first of two colliding results is kept
AddResult_FirstWins(results_map, normalized, r) ==
    IF normalized # <<>> /\ ~DictHas(results_map, normalized[1])
    THEN DictSet(results_map, normalized[1], r)
    ELSE results_map

\* results_map[normalized] = r, when normalized is not None
AddResult(results_map, normalized, r) ==
    IF normalized # <<>> THEN DictSet(results_map, normalized[1], r) ELSE results_map

\* results_map after the first n results
RECURSIVE ResultsMap(_, _)
ResultsMap(results, n) ==
    IF n = 0 THEN <<>>
    ELSE AddResult(ResultsMap(results, n - 1),
                   normalize_entry_number(PyStrip(results[n].entry_number)),
                   results[n])

\* a plausible slip: one shared token is enough whatever the names' lengths
PartsMatch_AnySharedToken(s_parts, o_parts) == s_parts \cap o_parts # {}

\* the tests of the name fallback on the token sets of two cleaned names
PartsMatch(s_parts, o_parts) ==
    \/ Cardinality(s_parts \cap o_parts) >= 2
    \/ /\ Cardinality(s_parts \cap o_parts) >= 1
       /\ Cardinality(s_parts) = 1
       /\ Cardinality(o_parts) = 1

\* the test of the name fallback on two cleaned names
NamesMatch(sheet_name_cleaned, ocr_name_cleaned) ==
    /\ ocr_name_cleaned # ""
    /\ \/ sheet_name_cleaned = ocr_name_cleaned
       \/ PartsMatch(Tokens(sheet_name_cleaned), Tokens(ocr_name_cleaned))

\* the first of the results at the positions hits
FirstHit(results, hits) ==
    IF hits = {} THEN <<>>
    ELSE <<results[CHOOSE k \in hits : \A j \in hits : k <= j]>>

NameHits(sheet_name_cleaned, results) ==
    {k \in 1..Len(results) :
        NamesMatch(sheet_name_cleaned, PyLower(PyStrip(results[k].name)))}

\* found_by_name: <<>> is None, else <<the first result whose name matches>>
FindByName(student, results) ==
    IF PyLower(PyStrip(student.name)) = "" THEN <<>>
    ELSE FirstHit(results, NameHits(PyLower(PyStrip(student.name)), results))

\* q_map: the details of a result by int(question_number), the later one winning
RECURSIVE QMap(_, _)
QMap(details, n) ==
    IF n = 0 THEN <<>>
    ELSE DictSet(QMap(details, n - 1), details[n].question_number, details[n])

\* a plausible slip: the score of the detail is written whatever its outcome
ValToWrite_ScoreAsIs(q_data) == q_data.score

\* val_to_write for the detail q_data
ValToWrite(q_data) ==
    IF q_data.result \in {"multiple", "unattempted", "incorrect"} THEN 0 ELSE q_data.score

\* the write for one question column, when q_map holds its question number
QuestionWrite(writes, q_map, q_num, col_letter, row) ==
    IF DictHas(q_map, q_num)
    THEN Append(writes, Write(col_letter, row, NumValue(ValToWrite(DictGet(q_map, q_num)))))
    ELSE writes

\* the per-question writes of one matched row, over the first n question columns
RECURSIVE QuestionWrites(_, _, _, _)
QuestionWrites(question_cols, q_map, row, n) ==
    IF n = 0 THEN <<>>
    ELSE QuestionWrite(QuestionWrites(question_cols, q_map, row, n - 1), q_map,
                       question_cols[n].key, question_cols[n].val.letter, row)

\* "; ".join(parts)
RECURSIVE JoinComments(_)
JoinComments(parts) ==
    IF parts = <<>> THEN ""
    ELSE IF Len(parts) = 1 THEN parts[1]
    ELSE parts[1] \o "; " \o JoinComments(Tail(parts))

NewSummary ==
    [updated |-> 0, not_found_in_sheet |-> <<>>, not_found_in_results |-> <<>>,
     name_mismatches |-> <<>>, errors |-> <<>>]

\* what update_marks holds before its loop over the students
PlanInit == [batch_data |-> <<>>, summary |-> NewSummary, matched_normalized |-> {}]

\* a plausible slip: a row whose names mismatch is recorded but not written
EmitRow_MismatchBlocksWrite(plan, student, result, columns, mismatch_msg, comment_str) ==
    IF mismatch_msg # <<>>
    THEN [plan EXCEPT
            !.summary.name_mismatches =
                Append(@, [entry_number |-> student.entry_number,
                           sheet_name |-> student.name,
                           ocr_name |-> result.name, row |-> student.row])]
    ELSE [plan EXCEPT
            !.batch_data =
                @ \o <<Write(columns.marks[1].letter, student.row,
                             NumValue(result.total_score))>>
                  \o (IF columns.comments # <<>> /\ comment_str # ""
                      THEN <<Write(columns.comments[1].letter, student.row,
                                   TextValue(comment_str))>>
                      ELSE <<>>)
                  \o QuestionWrites(columns.questions,
                                    QMap(result.details, Len(result.details)),
                                    student.row, Len(columns.questions))]

\* the writes of one matched row and the record of its name mismatch
EmitRow(plan, student, result, columns, mismatch_msg, comment_str) ==
    [plan EXCEPT
        !.batch_data =
            @ \o <<Write(columns.marks[1].letter, student.row, NumValue(result.total_score))>>
              \o (IF columns.comments # <<>> /\ comment_str # ""
                  THEN <<Write(columns.comments[1].letter, student.row,
                               TextValue(comment_str))>>
                  ELSE <<>>)
              \o QuestionWrites(columns.questions, QMap(result.details, Len(result.details)),
                                student.row, Len(columns.questions)),
        !.summary.name_mismatches =
            IF mismatch_msg # <<>>
            THEN Append(@, [entry_number |-> student.entry_number,
                            sheet_name |-> student.name,
                            ocr_name |-> result.name, row |-> student.row])
            ELSE @]

\* final_comments: the result's comment, then the mismatch message
FinalComments(ocr_comment, mismatch_msg) ==
    (IF ocr_comment # "" THEN <<ocr_comment>> ELSE <<>>) \o mismatch_msg

\* a plausible slip: the comment is added to the one the cell already holds
ComposeRow_KeepsExistingComment(plan, student, result, columns, mismatch_msg) ==
    EmitRow(plan, student, result, columns, mismatch_msg,
            JoinComments((IF student.existing_comment # ""
                          THEN <<student.existing_comment>> ELSE <<>>)
                         \o FinalComments(result.comments, mismatch_msg)))

\* comment_str, and the writes
ComposeRow(plan, student, result, columns, mismatch_msg) ==
    EmitRow(plan, student, result, columns, mismatch_msg,
            JoinComments(FinalComments(result.comments, mismatch_msg)))

\* the part of the loop body that follows the match of student to result
WriteRow(plan, student, result, columns) ==
    ComposeRow(plan, student, result, columns,
               check_name_mismatch(student.name, result.name))

\* the name fallback for a student whose identifier is not in results_map
FallbackRow(plan, student, found_by_name, columns) ==
    IF found_by_name # <<>>
    THEN WriteRow(plan, student, found_by_name[1], columns)
    ELSE [plan EXCEPT !.summary.not_found_in_results = Append(@, student.entry_number)]

\* the loop body once the student's identifier is normalized
MatchStudent(plan, student, normalized, results, results_map, columns) ==
    IF normalized = <<>> THEN plan
    ELSE IF DictHas(results_map, normalized[1])
    THEN WriteRow([plan EXCEPT !.matched_normalized = @ \cup {normalized[1]}],
                  student, DictGet(results_map, normalized[1]), columns)
    ELSE FallbackRow(plan, student, FindByName(student, results), columns)

\* the body of the loop of update_marks for one student
PlanStudent(plan, student, results, results_map, columns) ==
    MatchStudent(plan, student, normalize_entry_number(student.entry_number),
                 results, results_map, columns)

RECURSIVE PlanStudents(_, _, _, _, _)
PlanStudents(students, results, results_map, columns, n) ==
    IF n = 0 THEN PlanInit
    ELSE PlanStudent(PlanStudents(students, results, results_map, columns, n - 1),
                     students[n], results, results_map, columns)

\* update_marks after read_student_list, up to its batch update
PlanFrom(sheet_data, results) ==
    IF sheet_data.raised THEN sheet_data
    ELSE IF sheet_data.value.columns.marks = <<>>
    THEN Raised("No 'marks' column detected.")
    ELSE Returned(PlanStudents(sheet_data.value.students, results,
                               ResultsMap(results, Len(results)),
                               sheet_data.value.columns,
                               Len(sheet_data.value.students)))

\* update_marks up to its batch update: the error it raises, or its plan
PlanUpdate(values, results) == PlanFrom(read_student_list(values), results)

chunk_size == 500

\* a plausible slip: the failure of a batchUpdate call is only printed
BatchFailed_Unreported(summary) == summary

\* the except branch of the batch update: the error is appended to summary
BatchFailed(summary) ==
    [summary EXCEPT !.errors = Append(@, "Batch update failed: HttpError")]

\* a plausible slip: the end of the slice taken as inclusive
Chunk_InclusiveEnd(batch_data, i) ==
    SubSeq(batch_data, i + 1, Min(i + chunk_size + 1, Len(batch_data)))

\* batch_data[i:i + chunk_size], i counted from 0
Chunk(batch_data, i) ==
    SubSeq(batch_data, i + 1, Min(i + chunk_size, Len(batch_data)))

\* the 0-based index of the column a letter names
LetterIndex(col_letter) ==
    CHOOSE i \in 0..701 : IndexToLetter(i) = col_letter

\* what a cell shows once a value is written to it
CellText(value) == IF value.kind = "num" THEN PyStr(value.n) ELSE value.s

\* the row with its c-th cell set to text, extended with empty cells when needed
SetCell(row, c, text) ==
    [k \in 1..(IF Len(row) > c THEN Len(row) ELSE c) |->
        IF k = c THEN text ELSE IF k <= Len(row) THEN row[k] ELSE ""]

\* the sheet after one write
ApplyWrite(values, w) ==
    [values EXCEPT ![w.row] = SetCell(@, LetterIndex(w.col) + 1, CellText(w.value))]

\* the sheet after the first n of the writes
RECURSIVE ApplyWrites(_, _, _)
ApplyWrites(values, writes, n) ==
    IF n = 0 THEN values
    ELSE ApplyWrite(ApplyWrites(values, writes, n - 1), writes[n])

-----------------------------------------------------------------------------
(* Inputs of the identifier specification *)

MaxSep == 1      \* a separator between two groups of an identifier has at most MaxSep characters

SeparatorChars == {" ", "-", "_", ".", "/", ":"}

RECURSIVE StringsOver(_, _)
StringsOver(chars, n) ==
    IF n = 0 THEN {""}
    ELSE LET shorter == StringsOver(chars, n - 1)
         IN  shorter \cup {s \o c : s \in shorter, c \in chars}

\* identifiers written as year, program code and serial with separators between
WrittenIdentifiers ==
    [year : {"2023"}, sep1 : StringsOver(SeparatorChars, MaxSep),
     program : {"cs", "CsB", "MTCH"}, sep2 : StringsOver(SeparatorChars, MaxSep),
     serial : {"11", "11223"}]

Written(p) == p.year \o p.sep1 \o p.program \o p.sep2 \o p.serial

\* other cell and OCR contents
OtherIdentifiers ==
    {"", "unknown", "None", "n/a", " unknown", "N/A ", "abc", "ab-12", "Harsh Modi",
     "A2023-CSB-1122", "2023-CSB-112233", "12023CSB11", "2023 CSBXX 11",
     "x2023cs  11223344", "2023csb1", " 2023 csb 1122 ", "CSB/2023/11"}

Unwritten == [year |-> "", sep1 |-> "", program |-> "", sep2 |-> "", serial |-> ""]

InitId ==
    /\ \/ \E p \in WrittenIdentifiers : id_parts = p /\ id_raw = Written(p)
       \/ id_parts = Unwritten /\ id_raw \in OtherIdentifiers
    /\ id_once = <<>>
    /\ id_twice = <<>>
    /\ id_pc = "raw"
    /\ ScoreIdle
    /\ KeyIdle
    /\ SheetIdle

NormalizeOnce ==
    /\ id_pc = "raw"
    /\ id_once' = normalize_entry_number(id_raw)
    /\ id_pc' = "once"
    /\ UNCHANGED <<id_raw, id_parts, id_twice, idFrame>>

NormalizeAgain ==
    /\ id_pc = "once"
    /\ id_once # <<>>
    /\ id_twice' = normalize_entry_number(id_once[1])
    /\ id_pc' = "twice"
    /\ UNCHANGED <<id_raw, id_parts, id_once, idFrame>>

NextId == NormalizeOnce \/ NormalizeAgain

SpecId == InitId /\ [][NextId]_vars

-----------------------------------------------------------------------------
(* Claims about _normalize_entry_number, checked under SpecId *)

\* C7: normalizing a non-null result again gives the same result.
C7_Idempotent ==
    id_pc = "twice" => id_twice = id_once

IsWritten == id_parts # Unwritten

C8_Canonical == <<id_parts.year \o PyUpper(id_parts.program) \o id_parts.serial>>

C8_FallbackSeparators ==
    \A i \in 1..Len(id_parts.sep1 \o id_parts.sep2) :
        At(id_parts.sep1 \o id_parts.sep2, i) \in {" ", "\t", "-", "_", ".", "/"}

\* C8 as stated: an identifier written as year, program and serial, in any case
\* and with any whitespace or punctuation between the groups, normalizes to
\* YEAR + uppercase(PROGRAM) + SERIAL.
C8_AnySeparator ==
    (id_pc # "raw" /\ IsWritten) => id_once = C8_Canonical

\* C8 as amended: the same, for separators made of whitespace, hyphen,
\* underscore, dot and slash characters.
C8_StrippedSeparators ==
    (id_pc # "raw" /\ IsWritten /\ C8_FallbackSeparators) => id_once = C8_Canonical

C8_Witness ==
    /\ id_pc = "once"
    /\ IsWritten
    /\ id_parts.sep1 = "-"
    /\ id_parts.sep2 = " "
    /\ id_parts.program = "CsB"
    /\ id_once = <<"2023CSB11223">>

-----------------------------------------------------------------------------
(* Inputs of the export specification *)

MaxRows == 2       \* the roster holds at most MaxRows rows under its header row
MaxResults == 2    \* update_marks is given at most MaxResults results

\* header rows: every role present, with a column for a question the key has
\* not; no name, comments or question column; no identifier column; no
\* total-marks column
HeaderRows ==
    {<<"Roll No", "Name", "Total", "Q1", "Q2", "Q3", "Remarks">>,
     <<"Entry Number", "Student", "Marks">>,
     <<"Sr", "Name", "Total">>,
     <<"ID", "Name", "Q1", "Comments">>}

\* data rows as the API returns them, trailing empty cells dropped: the cell
\* under the first header and the cell under the second; the first row also
\* holds marks entered earlier
RosterRows ==
    {<<"2023-CSB-1122", "Harsh Modi", "9", "8", "7", "6">>,
     <<"", "Harsh Modi">>,
     <<"ab 12", "Harsh Modi">>,
     <<" 2020CSB0001", "Rao Harsh Modi">>}

RECURSIVE SeqsOver(_, _)
SeqsOver(S, n) ==
    IF n = 0 THEN {<<>>}
    ELSE SeqsOver(S, n - 1) \cup
         {Append(q, e) : <<q, e>> \in {p \in SeqsOver(S, n - 1) \X S : Len(p[1]) = n - 1}}

Rosters == {<<h>> \o rows : h \in HeaderRows, rows \in SeqsOver(RosterRows, MaxRows)}

SheetKey ==
    AnswerKey(<<[key |-> 1, val |-> AnswerKeyEntry("A", 100)],
                [key |-> 2, val |-> AnswerKeyEntry("B", 200)]>>,
              50, Metadata(<<>>, <<"manual_input">>, <<>>, <<>>))

\* the keys of a result dict that update_marks reads
ResultDict(entry_number, name, total_score, comments, details) ==
    [entry_number |-> entry_number, name |-> name, total_score |-> total_score,
     comments |-> comments, details |-> details]

\* r.model_dump() of a StudentResult of _current_results
ModelDump(r) == ResultDict(r.entry_number, r.name, r.total_score, r.comments, r.details)

\* results of process_drive_folder under SheetKey, and one rebuilt from the
\* database (no name, the stored feedback as comments)
ExportResults ==
    {ModelDump(match_and_score(SheetKey,
        [entry_number |-> <<"2023csb1122">>, name |-> <<"Harsh Modi">>,
         answers |-> <<[key |-> IntKey(1), val |-> "A"], [key |-> IntKey(2), val |-> "C"]>>])),
     ModelDump(match_and_score(SheetKey,
        [entry_number |-> <<"2023 CSB 1122">>, name |-> <<"Aditya Rao">>,
         answers |-> <<[key |-> IntKey(1), val |-> "a"], [key |-> IntKey(2), val |-> "b"]>>])),
     ModelDump(match_and_score(SheetKey,
        [entry_number |-> <<>>, name |-> <<"Harsh Modi">>,
         answers |-> <<[key |-> IntKey(2), val |-> "B"]>>])),
     ResultDict("2021EEB0042", "", 100, "1 correct, 0 incorrect, 1 unattempted", <<>>)}

InitSheet ==
    /\ sheet_values \in Rosters
    /\ um_results \in SeqsOver(ExportResults, MaxResults)
    /\ um_pc = "start"
    /\ um_batch = <<>>
    /\ um_matched = {}
    /\ um_sent = 0
    /\ um_summary = NONE
    /\ um_error = ""
    /\ um_rerun = FALSE
    /\ um_first = <<>>
    /\ ScoreIdle
    /\ KeyIdle
    /\ IdIdle
    /\ ColIdle /\ NameIdle /\ ChunkIdle /\ LaterIdle

\* update_marks, self.service being None
UpdateMarksNoService ==
    /\ um_pc = "start"
    /\ um_pc' = "raised"
    /\ um_error' = "Sheets service not initialized. Check credentials."
    /\ UNCHANGED <<sheet_values, um_results, um_batch, um_matched, um_sent, um_summary,
                   sheetFrame>>

\* update_marks raising from read_student_list or for the missing marks column
UpdateMarksRaises ==
    /\ um_pc = "start"
    /\ \E plan \in {PlanUpdate(sheet_values, um_results)} :
           /\ plan.raised
           /\ um_error' = plan.error
    /\ um_pc' = "raised"
    /\ UNCHANGED <<sheet_values, um_results, um_batch, um_matched, um_sent, um_summary,
                   sheetFrame>>

\* update_marks up to its first batchUpdate call, or to its return when
\* batch_data is empty
UpdateMarksPlan ==
    /\ um_pc = "start"
    /\ \E plan \in {PlanUpdate(sheet_values, um_results)} :
           /\ ~plan.raised
           /\ um_batch' = plan.value.batch_data
           /\ um_matched' = plan.value.matched_normalized
           /\ um_summary' = plan.value.summary
           /\ um_pc' = IF plan.value.batch_data = <<>> THEN "returned" ELSE "sending"
    /\ UNCHANGED <<sheet_values, um_results, um_sent, um_error, sheetFrame>>

\* one batchUpdate call succeeds; after the last, updated is set and summary returned
SendChunk ==
    /\ um_pc = "sending"
    /\ \E chunk \in {Chunk(um_batch, um_sent)} :
           /\ sheet_values' = ApplyWrites(sheet_values, chunk, Len(chunk))
           /\ um_sent' = um_sent + Len(chunk)
    /\ IF um_sent + chunk_size >= Len(um_batch)
       THEN /\ um_summary' = [um_summary EXCEPT !.updated = Cardinality(um_matched)]
            /\ um_pc' = "returned"
       ELSE UNCHANGED <<um_summary, um_pc>>
    /\ UNCHANGED <<um_results, um_batch, um_matched, um_error, sheetFrame>>

\* one batchUpdate call raises: the error is recorded and summary returned
SendChunkFails ==
    /\ um_pc = "sending"
    /\ um_summary' = BatchFailed(um_summary)
    /\ um_pc' = "returned"
    /\ UNCHANGED <<sheet_values, um_results, um_batch, um_matched, um_sent, um_error,
                   sheetFrame>>

NextSheet ==
    \/ UpdateMarksNoService
    \/ UpdateMarksRaises
    \/ UpdateMarksPlan
    \/ SendChunk
    \/ SendChunkFails

SpecSheet == InitSheet /\ [][NextSheet]_vars

-----------------------------------------------------------------------------
(* Claims about update_marks, checked under SpecSheet *)

\* update_marks has read the roster and built batch_data
Planned == um_pc \in {"sending", "returned"}

\* the identifier and the name read_student_list takes from a data row
RowIdentifier(columns, row) == PyStrip(SafeGet(row, ColumnIndex(columns.entry_number), ""))
RowName(columns, row) ==
    IF columns.name # <<>> THEN PyStrip(SafeGet(row, ColumnIndex(columns.name), "")) ELSE ""

\* the positions of the results whose entry_number normalizes to normalized
Colliding(normalized) ==
    {k \in 1..Len(um_results) :
        /\ normalized # <<>>
        /\ normalize_entry_number(PyStrip(um_results[k].entry_number)) = normalized}

\* the values batch_data holds for the total-marks cell of row r
TotalWrites(columns, r) ==
    LET IsTotal(w) == w.row = r /\ w.col = columns.marks[1].letter
    IN  [k \in 1..Len(SelectSeq(um_batch, IsTotal)) |-> SelectSeq(um_batch, IsTotal)[k].value]

LastOf(positions) == CHOOSE k \in positions : \A j \in positions : j <= k

MatchedById(columns, r, normalized, colliding) ==
    colliding # {} =>
        /\ normalized[1] \in um_matched
        /\ TotalWrites(columns, r) = <<NumValue(um_results[LastOf(colliding)].total_score)>>

\* C9: a roster row whose identifier normalizes to the same string as the
\* entry_number of some result is matched by identifier, and batch_data holds
\* for its total-marks cell exactly the total_score of the last such result.
C9_LastCollidingResultWins ==
    Planned =>
        \A columns \in {detect_columns(sheet_values[1])} :
            \A r \in 2..Len(sheet_values) :
                \A normalized \in
                        {normalize_entry_number(RowIdentifier(columns, sheet_values[r]))} :
                    MatchedById(columns, r, normalized, Colliding(normalized))

\* two results written differently collide on a row's identifier, carry
\* different totals, and the later total has reached the row's cell
C9_Witness ==
    /\ um_pc = "returned"
    /\ um_summary.errors = <<>>
    /\ \E columns \in {detect_columns(sheet_values[1])} :
          \E r \in 2..Len(sheet_values) :
              \E normalized \in
                      {normalize_entry_number(RowIdentifier(columns, sheet_values[r]))} :
                  /\ Cardinality(Colliding(normalized)) >= 2
                  /\ \E j, k \in Colliding(normalized) :
                        /\ j < k
                        /\ k = LastOf(Colliding(normalized))
                        /\ um_results[j].total_score # um_results[k].total_score
                        /\ um_results[j].entry_number # um_results[k].entry_number
                        /\ um_results[k].entry_number # RowIdentifier(columns, sheet_values[r])
                        /\ SafeGet(sheet_values[r], ColumnIndex(columns.marks), "")
                              = PyStr(um_results[k].total_score)

\* some result bears the row's name, cleaned as the name fallback cleans it
NameOfSomeResult(name) ==
    /\ PyLower(PyStrip(name)) # ""
    /\ \E k \in 1..Len(um_results) :
          PyLower(PyStrip(um_results[k].name)) = PyLower(PyStrip(name))

\* C10: a roster row whose identifier is empty or fails to normalize, and whose
\* name is the name of a result, gets a total-marks write through the name
\* fallback, and no error is recorded.
C10_NameFallbackWithoutIdentifier ==
    Planned =>
        \A columns \in {detect_columns(sheet_values[1])} :
            \A r \in 2..Len(sheet_values) :
                (/\ normalize_entry_number(RowIdentifier(columns, sheet_values[r])) = <<>>
                 /\ NameOfSomeResult(RowName(columns, sheet_values[r])))
                => /\ Len(TotalWrites(columns, r)) = 1
                   /\ um_summary.errors = <<>>

\* update_marks has returned its summary
SummaryReturned == um_pc = "returned"

\* the students read_student_list takes from the sheet
RosterStudents == read_student_list(sheet_values).value.students

LeastOf(positions) == CHOOSE k \in positions : \A j \in positions : k <= j

\* the position in results of the result the loop body matches to a student
\* whose identifier normalizes to normalized: {} when there is none
MatchedPosition(student, normalized, hits) ==
    IF normalized = <<>> THEN {}
    ELSE IF Colliding(normalized) # {} THEN {LastOf(Colliding(normalized))}
    ELSE IF PyLower(PyStrip(student.name)) # "" /\ hits # {} THEN {LeastOf(hits)}
    ELSE {}

MatchOf(student) ==
    MatchedPosition(student, normalize_entry_number(student.entry_number),
                    NameHits(PyLower(PyStrip(student.name)), um_results))

\* the positions of the results some roster row is matched to
MatchedResults(students) == UNION {MatchOf(students[i]) : i \in 1..Len(students)}

Listed(list, entry_number) == \E i \in 1..Len(list) : list[i] = entry_number

\* C11: after update_marks every result matched by no roster row is listed in
\* summary.not_found_in_sheet, and no matched result is listed there.
C11_UnmatchedResultsListed ==
    SummaryReturned =>
        \A matched \in {MatchedResults(RosterStudents)} :
            \A k \in 1..Len(um_results) :
                (k \notin matched)
                    <=> Listed(um_summary.not_found_in_sheet, um_results[k].entry_number)

\* the entries of summary.name_mismatches for one row
MismatchesOf(row) ==
    SelectSeq(um_summary.name_mismatches, LAMBDA e : e.row = row)

\* the entry update_marks records for a student whose name differs from result's
MismatchEntry(student, result) ==
    [entry_number |-> student.entry_number, sheet_name |-> student.name,
     ocr_name |-> result.name, row |-> student.row]

WrittenDespiteMismatch(columns, student, result) ==
    /\ Len(TotalWrites(columns, student.row)) = 1
    /\ MismatchesOf(student.row) =
          IF check_name_mismatch(student.name, result.name) # <<>>
          THEN <<MismatchEntry(student, result)>>
          ELSE <<>>

\* C12: every roster row matched to a result gets exactly one total-marks
\* write whether or not _check_name_mismatch returns a message, and when it
\* does, the row's entry is added to summary.name_mismatches.
C12_MismatchNeverBlocksWrite ==
    Planned =>
        \A columns \in {detect_columns(sheet_values[1])} :
            \A students \in {RosterStudents} :
                \A i \in 1..Len(students) :
                    \A k \in MatchOf(students[i]) :
                        WrittenDespiteMismatch(columns, students[i], um_results[k])

\* a matched row whose names mismatch has its total in the sheet and its
\* entry in the returned summary
C12_Witness ==
    /\ SummaryReturned
    /\ um_summary.errors = <<>>
    /\ \E columns \in {detect_columns(sheet_values[1])} :
          \E students \in {RosterStudents} :
              \E i \in 1..Len(students) :
                  \E k \in MatchOf(students[i]) :
                      /\ check_name_mismatch(students[i].name, um_results[k].name) # <<>>
                      /\ Len(MismatchesOf(students[i].row)) = 1
                      /\ SafeGet(sheet_values[students[i].row],
                                 ColumnIndex(columns.marks), "")
                            = PyStr(um_results[k].total_score)

NoIdentifierColumn == detect_columns(sheet_values[1]).entry_number = <<>>

\* C13: when no header is classified as the identifier column, reading the
\* roster fails with an error, and update_marks issues no cell write and
\* returns no summary.
C13_NoIdentifierColumnIsAnError ==
    NoIdentifierColumn =>
        /\ read_student_list(sheet_values).raised
        /\ um_pc \in {"start", "raised"}
        /\ um_batch = <<>> /\ um_sent = 0
        /\ um_summary = NONE

\* update_marks has raised the roster's error on a sheet whose rows would
\* otherwise match the results
C13_Witness ==
    /\ NoIdentifierColumn
    /\ um_pc = "raised"
    /\ um_error = "Could not detect entry number column."
    /\ \E r \in 2..Len(sheet_values) :
          Colliding(normalize_entry_number(PyStrip(sheet_values[r][1]))) # {}

\* C14: with an identifier column detected (and rows to read, and the service
\* available), the absence of any other column is not an error: update_marks
\* does not raise, and writes what the present columns allow.
C14_OtherColumnsOptional ==
    (/\ ~NoIdentifierColumn
     /\ Len(sheet_values) >= 2
     /\ um_pc = "raised")
    => um_error = "Sheets service not initialized. Check credentials."

-----------------------------------------------------------------------------
(* _detect_columns on its own *)

MaxHeaders == 3    \* a drawn header row holds at most MaxHeaders headers

\* headers: aliases of the four roles as written in a sheet, question headers
\* (two of them for question 1), headers that contain an alias without being
\* one, and a header that is none of these
HeaderTexts ==
    {"Roll No", " ID ", "Name", "Total", "Remarks", "Q1", "1", "Question 2", "ques-2",
     "Student ID Number", "Full Name of Student", "Section"}

ExampleHeaders == <<"Roll No", "Name", "Total", "Q1", "Q2", "Remarks">>

InitColumns ==
    /\ dc_headers \in SeqsOver(HeaderTexts, MaxHeaders) \cup {ExampleHeaders}
    /\ dc_columns = NONE
    /\ ScoreIdle /\ KeyIdle /\ IdIdle
    /\ sheet_values = <<>> /\ um_results = <<>> /\ um_pc = "idle" /\ um_batch = <<>>
    /\ um_matched = {} /\ um_sent = 0 /\ um_summary = NONE /\ um_error = ""
    /\ um_rerun = FALSE /\ um_first = <<>>
    /\ NameIdle /\ ChunkIdle /\ LaterIdle

DetectColumns ==
    /\ dc_columns = NONE
    /\ dc_columns' = detect_columns(dc_headers)
    /\ UNCHANGED <<dc_headers, colFrame>>

NextColumns == DetectColumns

SpecColumns == InitColumns /\ [][NextColumns]_vars

-----------------------------------------------------------------------------
(* Claims about _detect_columns, checked under SpecColumns *)

Detected == dc_columns # NONE

SingularRoles == {"entry_number", "name", "marks", "comments"}

AliasesOf(role) ==
    CASE role = "entry_number" -> ENTRY_NUMBER_ALIASES
      [] role = "name" -> NAME_ALIASES
      [] role = "marks" -> MARKS_ALIASES
      [] role = "comments" -> COMMENTS_ALIASES

\* the 0-based header indexes the singular roles hold
SingularIndexes ==
    {dc_columns[role][1].index : role \in {x \in SingularRoles : dc_columns[x] # <<>>}}

\* the lower-cased, trimmed text of the header at 0-based index i
HeaderText(i) == PyLower(PyStrip(dc_headers[i + 1]))

HeaderIndexes == 0..(Len(dc_headers) - 1)

\* no index is held by two roles, nor by a role and a question, nor by two questions
C15_OneRolePerHeader ==
    /\ \A r1, r2 \in SingularRoles :
          (r1 # r2 /\ dc_columns[r1] # <<>> /\ dc_columns[r2] # <<>>)
              => dc_columns[r1][1].index # dc_columns[r2][1].index
    /\ \A k \in 1..Len(dc_columns.questions) :
          /\ dc_columns.questions[k].val.index \notin SingularIndexes
          /\ \A j \in 1..Len(dc_columns.questions) :
                j # k => dc_columns.questions[j].val.index
                            # dc_columns.questions[k].val.index

\* each singular role holds the first header, by index, that is one of its aliases
C15_FirstMatchKept ==
    \A role \in SingularRoles :
        \A hits \in {{i \in HeaderIndexes : HeaderText(i) \in AliasesOf(role)}} :
            IF hits = {} THEN dc_columns[role] = <<>>
            ELSE /\ dc_columns[role] # <<>>
                 /\ dc_columns[role][1].index = LeastOf(hits)

\* the header is an optional q or question prefix followed by an integer, or
\* purely numeric
IsQuestionHeader(h) ==
    /\ RStripDigits(h) # h
    /\ PyStrip(RStripDigits(h)) \in {"", "q", "question"}

QuestionHeaderNumber(h) == DigitsVal(SubSeq(h, Len(RStripDigits(h)) + 1, Len(h)))

\* every question header no singular role holds is in questions under its integer
C15_QuestionsRegistered ==
    \A i \in HeaderIndexes \ SingularIndexes :
        IsQuestionHeader(HeaderText(i)) =>
            /\ DictHas(dc_columns.questions, QuestionHeaderNumber(HeaderText(i)))
            /\ DictGet(dc_columns.questions, QuestionHeaderNumber(HeaderText(i))).index = i

C15_Example ==
    dc_headers = ExampleHeaders =>
        /\ dc_columns.entry_number[1].index = 0
        /\ dc_columns.name[1].index = 1
        /\ dc_columns.marks[1].index = 2
        /\ dc_columns.comments[1].index = 5
        /\ [k \in 1..Len(dc_columns.questions) |->
               <<dc_columns.questions[k].key, dc_columns.questions[k].val.index>>]
              = <<<<1, 3>>, <<2, 4>>>>

QuestionHeadersFor(n) ==
    {i \in HeaderIndexes \ SingularIndexes : QuestionColumnMatch(HeaderText(i)) = <<n>>}

\* questions holds exactly the numbers of such headers, each under its last header
C15_LastQuestionHeaderRegistered ==
    /\ \A i \in HeaderIndexes \ SingularIndexes :
          \A m \in {QuestionColumnMatch(HeaderText(i))} :
              m # <<>> =>
                  /\ DictHas(dc_columns.questions, m[1])
                  /\ DictGet(dc_columns.questions, m[1]).index
                        = LastOf(QuestionHeadersFor(m[1]))
    /\ \A k \in 1..Len(dc_columns.questions) :
          QuestionHeadersFor(dc_columns.questions[k].key) # {}

RoleOrder == <<"entry_number", "name", "marks", "comments">>

\* h is a member of the role's alias set or, when loose, contains one of its aliases
MatchesRole(h, role, loose) ==
    h \in AliasesOf(role) \/ (loose /\ ContainsAlias(h, AliasesOf(role)))

\* the roles, by position in RoleOrder, that hold no header yet and that h matches
OpenRoles(held, h, loose) ==
    {k \in 1..Len(RoleOrder) :
        held[RoleOrder[k]] = <<>> /\ MatchesRole(h, RoleOrder[k], loose)}

\* the header at index idx goes to the first role in order that is open to it
ClaimHeader(held, idx, open) ==
    IF open = {} THEN held
    ELSE [held EXCEPT ![RoleOrder[LeastOf(open)]] = <<idx>>]

\* the header index each singular role holds after the first n headers
RECURSIVE RolesAfter(_, _)
RolesAfter(n, loose) ==
    IF n = 0 THEN [role \in SingularRoles |-> <<>>]
    ELSE CHOOSE after \in
             {ClaimHeader(held, n - 1, OpenRoles(held, HeaderText(n - 1), loose)) :
                 held \in {RolesAfter(n - 1, loose)}} : TRUE

\* the singular roles hold the headers the matching rule gives them, and no
\* header a role holds is in the question bucket
RolesFollow(held) ==
    /\ \A role \in SingularRoles : ColumnIndex(dc_columns[role]) = held[role]
    /\ \A k \in 1..Len(dc_columns.questions) :
          \A role \in SingularRoles :
              held[role] # <<dc_columns.questions[k].val.index>>

\* C16: a header matches a singular role when its lower-cased, trimmed text is
\* a member of the role's alias set or contains one of its aliases; roles are
\* tried in the order identifier, name, marks, comments, and a header claimed
\* by a role is considered for no later role nor for the question bucket.
C16_MemberOrSubstring ==
    Detected => RolesFollow(RolesAfter(Len(dc_headers), TRUE))

\* C16 (amended): as C16, but a header matches a role only when its text is a
\* member of the role's alias set; containing an alias is not enough.
C16_MemberOnly ==
    Detected => RolesFollow(RolesAfter(Len(dc_headers), FALSE))

\* a header that contains an identifier alias without being one is left
\* without role, while another header is claimed by a role
C16_Witness ==
    /\ Detected
    /\ SingularIndexes # {}
    /\ \E i \in HeaderIndexes \ SingularIndexes :
          /\ ContainsAlias(HeaderText(i), ENTRY_NUMBER_ALIASES)
          /\ HeaderText(i) \notin ENTRY_NUMBER_ALIASES
          /\ dc_columns.entry_number = <<>>

-----------------------------------------------------------------------------
(* _check_name_mismatch on its own *)

MaxWords == 2    \* a drawn name holds at most MaxWords words

NameWords == {"Harsh", "modi", "Modi-Harsh", "ar"}

\* the names of at most n words, a single space between words
RECURSIVE NamesOf(_)
NamesOf(n) ==
    IF n = 0 THEN {""}
    ELSE NamesOf(n - 1) \cup
         {IF name = "" THEN w ELSE name \o " " \o w :
             <<name, w>> \in NamesOf(n - 1) \X NameWords}

\* names as a sheet cell or the OCR gives them: also padded, also blank
NameInputs == NamesOf(MaxWords) \cup {"  ", " Harsh  Modi ", "Unknown "}

InitNames ==
    /\ nm_sheet_name \in NameInputs
    /\ nm_ocr_name \in NameInputs
    /\ nm_result = <<>>
    /\ nm_pc = "call"
    /\ ScoreIdle /\ KeyIdle /\ IdIdle
    /\ sheet_values = <<>> /\ um_results = <<>> /\ um_pc = "idle" /\ um_batch = <<>>
    /\ um_matched = {} /\ um_sent = 0 /\ um_summary = NONE /\ um_error = ""
    /\ um_rerun = FALSE /\ um_first = <<>>
    /\ ColIdle /\ ChunkIdle /\ LaterIdle

CheckNameMismatch ==
    /\ nm_pc = "call"
    /\ nm_result' = check_name_mismatch(nm_sheet_name, nm_ocr_name)
    /\ nm_pc' = "done"
    /\ UNCHANGED <<nm_sheet_name, nm_ocr_name, nameFrame>>

NextNames == CheckNameMismatch

SpecNames == InitNames /\ [][NextNames]_vars

-----------------------------------------------------------------------------
(* Claims about _check_name_mismatch, checked under SpecNames *)

\* part occurs in whole at some position
IsSubstring(part, whole) ==
    \E i \in 1..(Len(whole) + 1) :
        i + Len(part) - 1 <= Len(whole) /\ SubSeq(whole, i, i + Len(part) - 1) = part

\* the characters i..j of name are one of its whitespace-delimited words
WordAt(name, i, j) ==
    /\ i = 1 \/ IsSpace(At(name, i - 1))
    /\ j = Len(name) \/ IsSpace(At(name, j + 1))
    /\ \A k \in i..j : ~IsSpace(At(name, k))

\* some word of at least 3 characters of name occurs in other
LongWordWithin(name, other) ==
    \E i \in 1..Len(name) : \E j \in (i + 2)..Len(name) :
        WordAt(name, i, j) /\ IsSubstring(SubSeq(name, i, j), other)

SharedWord(a, b) ==
    \E i \in 1..Len(a) : \E j \in i..Len(a) :
        /\ WordAt(a, i, j)
        /\ \E k \in 1..(Len(b) - (j - i)) :
              WordAt(b, k, k + j - i) /\ SubSeq(b, k, k + j - i) = SubSeq(a, i, j)

\* the conditions of the claim on the trimmed, lower-cased names
TakenAsMatch(a, b) ==
    \/ a = "" \/ b = "" \/ a = "unknown" \/ b = "unknown"
    \/ a = b
    \/ SharedWord(a, b)
    \/ IsSubstring(a, b) \/ IsSubstring(b, a)
    \/ LongWordWithin(a, b) \/ LongWordWithin(b, a)

\* C17: _check_name_mismatch returns None exactly when, on the trimmed and
\* lower-cased names, either is empty or 'unknown', or they are equal, or they
\* share a word, or one is a substring of the other, or a word of length >= 3
\* of one occurs in the other; otherwise it returns a message.
C17_NullExactlyWhenTakenAsMatch ==
    nm_pc = "done" =>
        (nm_result = <<>>
            <=> TakenAsMatch(PyLower(PyStrip(nm_sheet_name)), PyLower(PyStrip(nm_ocr_name))))

\* a mismatch: the only word of one name that occurs inside the other is
\* shorter than 3 characters
C17_Witness ==
    /\ nm_pc = "done"
    /\ nm_result # <<>>
    /\ nm_sheet_name = "ar modi"
    /\ nm_ocr_name = "Harsh"

-----------------------------------------------------------------------------
(* More claims about update_marks, checked under SpecSheet *)

\* the values batch_data holds for the cell of row r in the column of the letter
CellWrites(batch, col_letter, r) ==
    [k \in 1..Len(SelectSeq(batch, LAMBDA w : w.row = r /\ w.col = col_letter)) |->
        SelectSeq(batch, LAMBDA w : w.row = r /\ w.col = col_letter)[k].value]

\* the details of the result for question q_num
DetailsFor(result, q_num) ==
    {result.details[k] : k \in {x \in 1..Len(result.details) :
                                    result.details[x].question_number = q_num}}

\* what the claim has written for a detail: the earned marks of a correct
\* answer, 0 for the other outcomes
EarnedMarks(d) == IF d.result = "correct" THEN d.score ELSE 0

\* the writes batch holds for one question column of a matched row
QuestionCellAsClaimed(batch, student, result, q_num, col_letter) ==
    IF DetailsFor(result, q_num) = {}
    THEN CellWrites(batch, col_letter, student.row) = <<>>
    ELSE \A d \in DetailsFor(result, q_num) :
            /\ CellWrites(batch, col_letter, student.row) = <<NumValue(EarnedMarks(d))>>
            /\ EarnedMarks(d) >= 0

QuestionWritesAsClaimed(batch, columns, students) ==
    \A i \in 1..Len(students) :
        \A k \in MatchOf(students[i]) :
            \A c \in 1..Len(columns.questions) :
                QuestionCellAsClaimed(batch, students[i], um_results[k],
                                      columns.questions[c].key,
                                      columns.questions[c].val.letter)

\* a cell changes only if batch_data holds a write for it
OnlyWrittenCellsChange ==
    \A r \in 1..Len(sheet_values) :
        \A c \in 1..Len(sheet_values'[r]) :
            SafeGet(sheet_values'[r], <<c - 1>>, "") # SafeGet(sheet_values[r], <<c - 1>>, "")
                => CellWrites(um_batch, IndexToLetter(c - 1), r) # <<>>

\* C18: for every matched row and every per-question column, a question with
\* a detail in the result gets exactly one write, 0 for an incorrect, multiple
\* or unattempted outcome and the earned marks for a correct one; a question
\* without detail gets no write and its cell is left as it was.
C18_QuestionColumns ==
    [][/\ (um_pc' \in {"sending", "returned"}) =>
              QuestionWritesAsClaimed(um_batch', detect_columns(sheet_values[1]),
                                      RosterStudents)
       /\ OnlyWrittenCellsChange]_vars

\* the sheet after a run on the row that held marks: the mark of the correct
\* answer, 0 in place of the penalty, and the old entry under Q3
C18_Witness ==
    /\ SummaryReturned
    /\ um_summary.errors = <<>>
    /\ \E r \in 2..Len(sheet_values) :
          /\ Len(sheet_values[1]) = 7
          /\ SafeGet(sheet_values[r], <<3>>, "") = "100"
          /\ SafeGet(sheet_values[r], <<4>>, "") = "0"
          /\ SafeGet(sheet_values[r], <<5>>, "") = "6"
          /\ \E k \in 1..Len(um_results) :
                \E j \in 1..Len(um_results[k].details) :
                    um_results[k].details[j].score < 0

\* the positions of the roster students the loop matches to a result
MatchedStudents(students) == {i \in 1..Len(students) : MatchOf(students[i]) # {}}

Successful == SummaryReturned /\ um_summary.errors = <<>>

\* C19: after a successful export summary.updated is the number of roster
\* students matched to a result, by identifier or by name fallback.
C19_UpdatedCountsMatchedStudents ==
    Successful => um_summary.updated = Cardinality(MatchedStudents(RosterStudents))

-----------------------------------------------------------------------------
(* The batch update of update_marks on write plans of every length *)

MaxWrites == 1001

\* the write plan for a roster of n matched rows on a sheet with a total-marks
\* column only: one write per row, from row 2 down
TotalsPlan(n) == [k \in 1..n |-> Write("C", k + 1, NumValue(k))]

InitChunks ==
    /\ ch_batch \in {TotalsPlan(n) : n \in 0..MaxWrites}
    /\ ch_chunks = <<>>
    /\ ch_pc = "start"
    /\ ch_summary = [updated |-> 0, errors |-> <<>>]
    /\ ScoreIdle /\ KeyIdle /\ IdIdle
    /\ sheet_values = <<>> /\ um_results = <<>> /\ um_pc = "idle" /\ um_batch = <<>>
    /\ um_matched = {} /\ um_sent = 0 /\ um_summary = NONE /\ um_error = ""
    /\ um_rerun = FALSE /\ um_first = <<>>
    /\ ColIdle /\ NameIdle /\ LaterIdle

\* `if batch_data:` is false: nothing is sent
EmptyBatch ==
    /\ ch_pc = "start"
    /\ ch_batch = <<>>
    /\ ch_pc' = "done"
    /\ UNCHANGED <<ch_batch, ch_chunks, ch_summary, chunkFrame>>

\* one turn of `for i in range(0, len(batch_data), chunk_size)`: the chunk
\* from i on is the data of one batchUpdate call
BatchUpdateChunk ==
    /\ ch_pc \in {"start", "loop"}
    /\ Len(ch_chunks) * chunk_size < Len(ch_batch)
    /\ ch_chunks' = Append(ch_chunks, Chunk(ch_batch, Len(ch_chunks) * chunk_size))
    /\ ch_pc' = "loop"
    /\ UNCHANGED <<ch_batch, ch_summary, chunkFrame>>

\* the batchUpdate call of one turn raises: the loop is left for the except
\* branch, and summary is returned
BatchUpdateFails ==
    /\ ch_pc \in {"start", "loop"}
    /\ Len(ch_chunks) * chunk_size < Len(ch_batch)
    /\ ch_summary' = BatchFailed(ch_summary)
    /\ ch_pc' = "failed"
    /\ UNCHANGED <<ch_batch, ch_chunks, chunkFrame>>

\* the range is exhausted: updated is len(matched_normalized), which for the
\* plan of totals is the number of its rows
ChunksSent ==
    /\ ch_pc = "loop"
    /\ Len(ch_chunks) * chunk_size >= Len(ch_batch)
    /\ ch_summary' = [ch_summary EXCEPT !.updated = Len(ch_batch)]
    /\ ch_pc' = "done"
    /\ UNCHANGED <<ch_batch, ch_chunks, chunkFrame>>

NextChunks == EmptyBatch \/ BatchUpdateChunk \/ BatchUpdateFails \/ ChunksSent

SpecChunks == InitChunks /\ [][NextChunks]_vars

-----------------------------------------------------------------------------
(* Claims about the chunking, checked under SpecChunks *)

RECURSIVE SentInOrder(_, _)
\* the data of the first n calls, one after the other
SentInOrder(chunks, n) ==
    IF n = 0 THEN <<>> ELSE SentInOrder(chunks, n - 1) \o chunks[n]

\* C20: the calls carry contiguous, non-empty groups of at most chunk_size
\* writes; put end to end in the order sent they are the start of the write
\* list, and the whole list, each write once and in its place, when the loop
\* is over.
C20_ChunksPartitionTheBatch ==
    /\ \A k \in 1..Len(ch_chunks) :
          Len(ch_chunks[k]) >= 1 /\ Len(ch_chunks[k]) <= chunk_size
    /\ \A sent \in {SentInOrder(ch_chunks, Len(ch_chunks))} :
          /\ Len(sent) <= Len(ch_batch)
          /\ sent = SubSeq(ch_batch, 1, Len(sent))
          /\ ch_pc = "done" => sent = ch_batch

\* a plan of two full groups and a last group of one write, all sent
C20_Witness ==
    /\ ch_pc = "done"
    /\ Len(ch_batch) = 2 * chunk_size + 1
    /\ Len(ch_chunks) = 3
    /\ Len(ch_chunks[3]) = 1

-----------------------------------------------------------------------------
(* More claims about the active answer key, checked under SpecKey *)

\* C21: whenever a key is active, the key a restart would recover from
\* current_answer_key.json is that key: same question numbers as integers,
\* options, marks, negative_marking and metadata.
C21_PersistedKeyIsActiveKey ==
    HasKey => load_from_disk(key_file) = current_answer_key

-----------------------------------------------------------------------------
(* Entries that do not parse: a key source through extract_answer_key, a
   student's answers through match_and_score *)

InitNormalize ==
    /\ nz_raw \in ParsedSources
    /\ nz_result = NONE
    /\ ScoreIdle
    /\ KeyIdle /\ IdIdle
    /\ sheet_values = <<>> /\ um_results = <<>> /\ um_pc = "idle" /\ um_batch = <<>>
    /\ um_matched = {} /\ um_sent = 0 /\ um_summary = NONE /\ um_error = ""
    /\ um_rerun = FALSE /\ um_first = <<>>
    /\ ColIdle /\ NameIdle /\ ChunkIdle /\ ResultIdle /\ PassIdle /\ CsvIdle

InitEntries == InitNormalize \/ InitScore

\* extract_answer_key on the file: the parser, then _normalize
ExtractAnswerKey ==
    /\ nz_raw # NONE
    /\ nz_result = NONE
    /\ nz_result' = extract_answer_key(nz_raw, "answer_key.csv")
    /\ UNCHANGED <<nz_raw, normFrame>>

NextEntries == ExtractAnswerKey \/ Score

SpecEntries == InitEntries /\ [][NextEntries]_vars

-----------------------------------------------------------------------------
(* Claims about entries that do not parse, checked under SpecEntries *)

Coercible(items) == SelectSeq(items, LAMBDA e : PyInt(e.key).ok)

\* the key an outcome of _normalize carries, the counts of its metadata aside
KeyProduced(outcome) ==
    IF outcome.raised THEN <<>>
    ELSE <<outcome.value.answers, outcome.value.total_questions,
           outcome.value.negative_marking>>

\* the half of C22 about match_and_score
StudentAnswerDropped ==
    sc_result # NONE =>
        sc_result = match_and_score(sc_key, [sc_student EXCEPT !.answers = Coercible(@)])

\* C22: an entry of a parsed key source whose question identifier does not
\* coerce to an integer is skipped, and the key is the one the remaining
\* entries give; a student answer whose question number does not coerce is
\* dropped, and the result is the one the other answers give.
C22_MalformedEntrySkipped ==
    /\ (nz_result # NONE /\ ~nz_raw.raised) =>
          KeyProduced(nz_result) =
              KeyProduced(Normalize([nz_raw.value EXCEPT !.answers = Coercible(@)],
                                    "answer_key.csv"))
    /\ StudentAnswerDropped

-----------------------------------------------------------------------------
(* Claims about the name fallback of update_marks, checked under SpecSheet *)

\* the whitespace-delimited words of a name
WordsOf(name) ==
    {SubSeq(name, p[1], p[2]) : p \in
        {q \in (1..Len(name)) \X (1..Len(name)) : q[1] <= q[2] /\ WordAt(name, q[1], q[2])}}

\* the conditions of the claim on a row's name and a result's name, both
\* trimmed and lower-cased
Qualifies(row_name, result_name) ==
    /\ result_name # ""
    /\ \/ row_name = result_name
       \/ Cardinality(WordsOf(row_name) \cap WordsOf(result_name)) >= 2
       \/ /\ Cardinality(WordsOf(row_name)) = 1
          /\ Cardinality(WordsOf(result_name)) = 1
          /\ WordsOf(row_name) = WordsOf(result_name)

\* the positions of the results that qualify for the row's name
Qualifying(row_name) ==
    {k \in 1..Len(um_results) :
        row_name # "" /\ Qualifies(row_name, PyLower(PyStrip(um_results[k].name)))}

RowWrites(r) == SelectSeq(um_batch, LAMBDA w : w.row = r)

\* what the claim says of row r, its identifier and the results that qualify
FallbackAsClaimed(columns, r, identifier, qualifying) ==
    IF qualifying = {}
    THEN /\ Listed(um_summary.not_found_in_results, identifier)
         /\ RowWrites(r) = <<>>
    ELSE TotalWrites(columns, r) = <<NumValue(um_results[LeastOf(qualifying)].total_score)>>

\* the row's identifier normalizes and is not a key of the results map
NeedsFallback(identifier) ==
    /\ normalize_entry_number(identifier) # <<>>
    /\ Colliding(normalize_entry_number(identifier)) = {}

\* C23: a roster row whose identifier normalizes but is not a key of the
\* results map is matched to the first result whose non-empty lower-cased
\* name equals the row's, shares two words with it, or is one word shared
\* with a one-word row name; with no such result, or no name on the row, the
\* identifier is listed in not_found_in_results and the row gets no write.
C23_NameFallback ==
    Planned =>
        \A columns \in {detect_columns(sheet_values[1])} :
            \A r \in 2..Len(sheet_values) :
                NeedsFallback(RowIdentifier(columns, sheet_values[r])) =>
                    FallbackAsClaimed(columns, r, RowIdentifier(columns, sheet_values[r]),
                        Qualifying(PyLower(RowName(columns, sheet_values[r]))))

\* a row matched by two shared words to the second result, the name of the
\* first sharing one word only
C23_Witness ==
    /\ Planned
    /\ Len(um_results) = 2
    /\ \E columns \in {detect_columns(sheet_values[1])} :
          \E r \in 2..Len(sheet_values) :
              /\ NeedsFallback(RowIdentifier(columns, sheet_values[r]))
              /\ Qualifying(PyLower(RowName(columns, sheet_values[r]))) = {2}
              /\ PyLower(RowName(columns, sheet_values[r])) # PyLower(um_results[2].name)
              /\ WordsOf(PyLower(RowName(columns, sheet_values[r])))
                    \cap WordsOf(PyLower(um_results[1].name)) # {}
              /\ TotalWrites(columns, r) = <<NumValue(um_results[2].total_score)>>
              /\ um_results[1].total_score # um_results[2].total_score

-----------------------------------------------------------------------------
(* More claims about the chunking, checked under SpecChunks *)

\* the state the claim describes once the call for a chunk has failed: the
\* chunks before it applied, in plan order, and nothing of the rest
FailedAsClaimed(batch, chunks, summary) ==
    /\ Len(chunks) * chunk_size < Len(batch)
    /\ SentInOrder(chunks, Len(chunks)) = SubSeq(batch, 1, Len(chunks) * chunk_size)
    /\ Len(summary.errors) = 1
    /\ summary.updated = 0

\* C24: chunks are sent one at a time in plan order; when the call for chunk
\* k fails, the chunks before k are applied, chunk k and the later ones are
\* not and are not attempted again, summary.errors receives an entry and
\* summary.updated stays 0.
C24_FailureLeavesEarlierChunks ==
    [][/\ ch_pc' = "failed" => FailedAsClaimed(ch_batch', ch_chunks', ch_summary')
       /\ ch_pc = "failed" => UNCHANGED chunkVars]_vars

\* the call for the second of three chunks has failed
C24_Witness ==
    /\ ch_pc = "failed"
    /\ Len(ch_batch) = 2 * chunk_size + 1
    /\ Len(ch_chunks) = 1
    /\ Len(ch_chunks[1]) = chunk_size

-----------------------------------------------------------------------------
(* update_marks run again with the same results on the sheet a run left *)

\* rosters in which update_marks finds the identifier and total-marks columns
WritableRosters ==
    {v \in Rosters : \A columns \in {detect_columns(v[1])} :
                        columns.entry_number # <<>> /\ columns.marks # <<>>}

InitRerun ==
    /\ sheet_values \in WritableRosters
    /\ um_results \in SeqsOver(ExportResults, MaxResults)
    /\ um_pc = "start"
    /\ um_batch = <<>>
    /\ um_matched = {}
    /\ um_sent = 0
    /\ um_summary = NONE
    /\ um_error = ""
    /\ um_rerun = FALSE
    /\ um_first = <<>>
    /\ ScoreIdle
    /\ KeyIdle
    /\ IdIdle
    /\ ColIdle /\ NameIdle /\ ChunkIdle /\ LaterIdle

\* update_marks is called again with the same results, after a run that
\* returned its summary, with or without a failed batch update
RunAgain ==
    /\ um_pc = "returned"
    /\ ~um_rerun
    /\ um_rerun' = TRUE
    /\ um_first' = um_batch
    /\ um_pc' = "start"
    /\ um_batch' = <<>>
    /\ um_matched' = {}
    /\ um_sent' = 0
    /\ um_summary' = NONE
    /\ UNCHANGED <<sheet_values, um_results, um_error, scoreVars, keyVars, idVars, pureVars>>

NextRerun == UpdateMarksPlan \/ SendChunk \/ SendChunkFails \/ RunAgain

SpecRerun == InitRerun /\ [][NextRerun]_vars

-----------------------------------------------------------------------------
(* Claims about running update_marks again, checked under SpecRerun *)

\* the letters of the columns update_marks computes its plan from
ColumnsRead(columns) == {columns.entry_number[1].letter} \cup
    (IF columns.name = <<>> THEN {} ELSE {columns.name[1].letter})

\* no write of the plan is to the header row or to a column the plan is
\* computed from, so a run interrupted at any call leaves them as they were
WritesSpareInputs(batch, columns) ==
    \A k \in 1..Len(batch) : batch[k].row >= 2 /\ batch[k].col \notin ColumnsRead(columns)

-----------------------------------------------------------------------------
(* The folder scoring pass, the legacy single-file task and the endpoints   *)
(* that run beside them. The endpoints are plain functions, which the       *)
(* server runs on worker threads: a request is served while the pass is     *)
(* between two sheets. The rows the pass and the task also write to the     *)
(* database are read by export_to_sheets only and are left out here.        *)

MaxSheets == 2   \* the folder holds at most MaxSheets student sheets
MaxStored == 2   \* the legacy task runs while fewer than MaxStored results are held

\* what extract_objective_sheet returns for a sheet it could read
Extracted(entry_number, name, answers) ==
    [entry_number |-> <<entry_number>>, name |-> <<name>>, answers |-> answers]

\* "error" in extracted
HasError(extracted) == "error" \in DOMAIN extracted

PassSheetKinds ==
    {Extracted("2023CSB1122", "Harsh Modi", <<[key |-> StrKey("1"), val |-> "A"]>>),
     Extracted("2023CSB1123", "Aditya Rao", <<[key |-> StrKey("1"), val |-> "option b"]>>),
     [error |-> "Could not parse the model output"]}

\* the bodies of the manual installations that arrive during a pass
PassBodies ==
    {[answers |-> <<[key |-> StrKey("1"), val |-> " a"]>>,
      marks_per_question |-> <<>>, negative_marking |-> <<>>],
     [answers |-> <<[key |-> StrKey("1"), val |-> "b"]>>,
      marks_per_question |-> <<200>>, negative_marking |-> <<>>],
     [answers |-> <<[key |-> StrKey("Q3"), val |-> "b"]>>,
      marks_per_question |-> <<>>, negative_marking |-> <<>>]}

PassOutcomes == {ManualKey(body) : body \in PassBodies}

\* the key file of the folder: none, one that cannot be parsed, one that can
PassFolderKeys ==
    {NONE} \cup
    {extract_answer_key(parsed, "answer_key.csv") :
        parsed \in {Raised("ValueError"),
                    Returned([answers |-> <<[key |-> StrKey("1"), val |-> StrValue(" a")]>>,
                              negative_marking |-> <<>>])}}

\* parsed.get(field) or default
OrDefault(opt, default) == IF opt = <<>> \/ opt = <<"">> THEN default ELSE opt[1]

\* the loop of _normalize_objective_output over a dict of answers
RECURSIVE NormalizeOcrAnswers(_, _)
NormalizeOcrAnswers(raw_answers, n) ==
    IF n = 0 THEN <<>>
    ELSE \* bound as parameters of the quantifiers, so each is computed once
         CHOOSE out \in {IF PyInt(raw_answers[n].key).ok
                         THEN DictSet(NormalizeOcrAnswers(raw_answers, n - 1),
                                      StrKey(PyStr(PyInt(raw_answers[n].key).val)),
                                      NormalizeOption(raw_answers[n].val))
                         ELSE NormalizeOcrAnswers(raw_answers, n - 1)} : TRUE

\* ocr_service._normalize_objective_output(parsed), answers being a dict
normalize_objective_output(parsed) ==
    [entry_number |-> <<OrDefault(parsed.entry_number, "unknown")>>,
     name |-> <<OrDefault(parsed.name, "unknown")>>,
     answers |-> NormalizeOcrAnswers(parsed.answers, Len(parsed.answers))]

\* save_results_to_disk(): the contents of the file after the call; as with
\* the key file, a failure is only printed
save_results_to_disk(file, results, writable) ==
    IF writable THEN {results} ELSE {file, UNREADABLE}

InitPass ==
    /\ current_answer_key = NONE
    /\ key_file = NONE
    /\ key_file_writable \in BOOLEAN
    /\ response = NONE
    /\ current_results = <<>>
    /\ results_file = NONE
    /\ db_results = <<>>
    /\ pd_pc = "idle"
    /\ pd_sheets \in SeqsOver(PassSheetKinds, MaxSheets)
    /\ pd_folder_key \in PassFolderKeys
    /\ pd_idx = 0
    /\ pd_results = <<>>
    /\ pd_errors = 0
    /\ pd_start_key = NONE
    /\ ScoreIdle
    /\ IdIdle
    /\ sheet_values = <<>> /\ um_results = <<>> /\ um_pc = "idle" /\ um_batch = <<>>
    /\ um_matched = {} /\ um_sent = 0 /\ um_summary = NONE /\ um_error = ""
    /\ um_rerun = FALSE /\ um_first = <<>>
    /\ ColIdle /\ NameIdle /\ ChunkIdle /\ NormIdle /\ CsvIdle

\* process_drive_folder refuses the request with an HTTP error
PassRefused(status) ==
    /\ response' = Respond("process-drive-folder", status)
    /\ pd_pc' = "refused"
    /\ UNCHANGED <<pd_idx, pd_results, pd_errors, pd_start_key>>

\* process_drive_folder up to the loop over the student sheets: the key is
\* taken from memory, else from disk, else from the key file of the folder
PassStart ==
    /\ pd_pc # "scoring"
    /\ \E from_disk \in {IF current_answer_key = NONE THEN load_from_disk(key_file)
                         ELSE current_answer_key} :
          IF pd_sheets = <<>> /\ pd_folder_key = NONE
          THEN /\ PassRefused(404)
               /\ UNCHANGED current_answer_key
          ELSE IF from_disk = NONE /\ pd_folder_key = NONE
          THEN /\ PassRefused(400)
               /\ current_answer_key' = from_disk
          ELSE IF from_disk = NONE /\ pd_folder_key.raised
          THEN /\ PassRefused(500)
               /\ current_answer_key' = from_disk
          ELSE /\ current_answer_key' =
                     IF from_disk = NONE THEN pd_folder_key.value ELSE from_disk
               /\ IF pd_sheets = <<>>
                  THEN PassRefused(404)
                  ELSE /\ pd_pc' = "scoring"
                       /\ pd_idx' = 0
                       /\ pd_results' = <<>>
                       /\ pd_errors' = 0
                       /\ pd_start_key' = current_answer_key'
                       /\ UNCHANGED response
    /\ UNCHANGED <<current_results, results_file, passFrame>>

\* one turn of the loop: the sheet is scored against the key that is active
\* now; a sheet that could not be read, or an exception while scoring (there
\* being no key), adds to errors and the loop goes on
PassSheet ==
    /\ pd_pc = "scoring"
    /\ pd_idx < Len(pd_sheets)
    /\ pd_idx' = pd_idx + 1
    /\ IF HasError(pd_sheets[pd_idx + 1]) \/ current_answer_key = NONE
       THEN /\ pd_errors' = pd_errors + 1
            /\ UNCHANGED pd_results
       ELSE /\ pd_results' =
                  Append(pd_results, match_and_score(current_answer_key, pd_sheets[pd_idx + 1]))
            /\ UNCHANGED pd_errors
    /\ UNCHANGED <<current_answer_key, response, current_results, results_file, pd_pc,
                   pd_start_key, passFrame>>

\* after the loop: the local results become the active results and are
\* saved; building the response reads the metadata of the active key
PassPublish ==
    /\ pd_pc = "scoring"
    /\ pd_idx = Len(pd_sheets)
    /\ current_results' = pd_results
    /\ results_file' \in save_results_to_disk(results_file, pd_results, key_file_writable)
    /\ response' = Respond("process-drive-folder",
                           IF current_answer_key = NONE THEN 500 ELSE 200)
    /\ pd_pc' = "done"
    /\ UNCHANGED <<current_answer_key, pd_idx, pd_results, pd_errors, pd_start_key,
                   passFrame>>

\* the result _legacy_process_task adds for a sheet it could read
LegacyResult(answer_key, extracted) ==
    match_and_score(answer_key, normalize_objective_output(extracted))

\* _legacy_process_task, the background task of POST /process-file
LegacyProcessTask ==
    /\ Len(current_results) < MaxStored
    /\ \E extracted \in PassSheetKinds :
          IF HasError(extracted) \/ current_answer_key = NONE
          THEN UNCHANGED <<current_results, results_file>>
          ELSE /\ current_results' =
                     Append(current_results, LegacyResult(current_answer_key, extracted))
               /\ results_file' \in
                     save_results_to_disk(results_file, current_results', key_file_writable)
    /\ UNCHANGED <<current_answer_key, response, pd_pc, pd_idx, pd_results, pd_errors,
                   pd_start_key, passFrame>>

\* POST /answer-key/set-manual, served at any moment
SetManualDuringPass == SetManual(PassOutcomes)

NextPass ==
    \/ PassStart
    \/ PassSheet
    \/ PassPublish
    \/ LegacyProcessTask
    \/ SetManualDuringPass
    \/ ClearResults

SpecPass == InitPass /\ [][NextPass]_vars

-----------------------------------------------------------------------------
(* Claims about the active results, checked under SpecPass *)

\* the results a scoring operation may leave as the active results: the
\* local results of the pass, or the one result of one legacy task
OneLegacyResult ==
    {<<LegacyResult(current_answer_key, extracted)>> :
        extracted \in {e \in PassSheetKinds : ~HasError(e) /\ current_answer_key # NONE}}

ReplacedAsAWhole ==
    current_results' # current_results =>
        \/ current_results' = <<>>
        \/ current_results' = pd_results
        \/ current_results' \in OneLegacyResult

\* C26: the active results are only replaced as a whole: a step that changes
\* them leaves exactly the results of the operation that took it (the local
\* results of the pass, or the one result of the legacy task) and none of
\* the results held before.
C26_ResultsReplacedAsAWhole == [][ReplacedAsAWhole]_vars

\* the results the pass would publish had every sheet been scored against
\* the key that was active when the loop started
ScoredFromStartKey(result) ==
    \E i \in 1..Len(pd_sheets) :
        /\ ~HasError(pd_sheets[i])
        /\ result = match_and_score(pd_start_key, pd_sheets[i])

\* C30: every result of the set a folder pass publishes was computed from the
\* key that was active when the pass started scoring, whatever installs or
\* clears the key while the pass runs.
C30_PassScoredAgainstOneKey ==
    pd_pc = "done" =>
        \A i \in 1..Len(pd_results) : ScoredFromStartKey(pd_results[i])


-----------------------------------------------------------------------------
(* AnswerKeyService._detect_csv_columns *)

q_keywords ==
    {"question", "q", "number", "q_no", "qno", "q.no", "q no", "question_number",
     "question number", "sl", "sr", "sno", "s.no"}

opt_keywords ==
    {"correct", "option", "answer", "correct_option", "correct option", "ans", "key",
     "correct_answer", "correct answer"}

marks_keywords == {"marks", "mark", "score", "weight", "points"}

\* any(kw in h for kw in keywords)
AnyIn(keywords, h) == \E kw \in keywords : Contains(h, kw)

\* one turn of the loop over enumerate(headers); a column not found is <<>>
ClassifyCsvHeader(cols, idx, header) ==
    IF cols.q_col = <<>> /\ AnyIn(q_keywords, PyStrip(PyLower(header)))
    THEN [cols EXCEPT !.q_col = <<idx>>]
    ELSE IF cols.opt_col = <<>> /\ AnyIn(opt_keywords, PyStrip(PyLower(header)))
    THEN [cols EXCEPT !.opt_col = <<idx>>]
    ELSE IF cols.marks_col = <<>> /\ AnyIn(marks_keywords, PyStrip(PyLower(header)))
    THEN [cols EXCEPT !.marks_col = <<idx>>]
    ELSE cols

\* the loop over the first n headers; Python counts the columns from 0
RECURSIVE ClassifyCsvHeaders(_, _)
ClassifyCsvHeaders(headers, n) ==
    IF n = 0 THEN [q_col |-> <<>>, opt_col |-> <<>>, marks_col |-> <<>>]
    ELSE ClassifyCsvHeader(ClassifyCsvHeaders(headers, n - 1), n - 1, headers[n])

\* the defaults after the loop
CsvDefaults(cols, headers) ==
    IF cols.q_col = <<>> /\ cols.opt_col = <<>>
    THEN [cols EXCEPT !.q_col = <<0>>, !.opt_col = <<IF Len(headers) > 1 THEN 1 ELSE 0>>]
    ELSE IF cols.opt_col = <<>>
    THEN [cols EXCEPT !.opt_col = <<cols.q_col[1] + 1>>]
    ELSE IF cols.q_col = <<>>
    THEN [cols EXCEPT !.q_col = <<IF cols.opt_col[1] - 1 > 0 THEN cols.opt_col[1] - 1 ELSE 0>>]
    ELSE cols

\* _detect_csv_columns(headers): (q_col, opt_col, marks_col), marks_col
\* being <<>> for None
detect_csv_columns(headers) ==
    IF headers = <<>> THEN [q_col |-> <<0>>, opt_col |-> <<1>>, marks_col |-> <<>>]
    ELSE CsvDefaults(ClassifyCsvHeaders(headers, Len(headers)), headers)

MaxCsvHeaders == 3   \* a header row of a tabular key source holds at most MaxCsvHeaders cells

CsvHeaderTexts == {"Question", " Q.No ", "Answer", "Correct Option", "Marks", "Remarks", "x"}

InitCsv ==
    /\ cs_headers \in SeqsOver(CsvHeaderTexts, MaxCsvHeaders)
    /\ cs_result = NONE
    /\ ScoreIdle
    /\ KeyIdle
    /\ IdIdle
    /\ sheet_values = <<>> /\ um_results = <<>> /\ um_pc = "idle" /\ um_batch = <<>>
    /\ um_matched = {} /\ um_sent = 0 /\ um_summary = NONE /\ um_error = ""
    /\ um_rerun = FALSE /\ um_first = <<>>
    /\ ColIdle /\ NameIdle /\ ChunkIdle /\ NormIdle /\ ResultIdle /\ PassIdle

DetectCsvColumns ==
    /\ cs_result = NONE
    /\ cs_result' = detect_csv_columns(cs_headers)
    /\ UNCHANGED <<cs_headers, csvFrame>>

NextCsv == DetectCsvColumns

SpecCsv == InitCsv /\ [][NextCsv]_vars

-----------------------------------------------------------------------------
(* Claims about _detect_csv_columns, checked under SpecCsv *)

\* what the loop recognised in the header row, before the defaults
Recognised == ClassifyCsvHeaders(cs_headers, Len(cs_headers))

Distance(a, b) == IF a > b THEN a - b ELSE b - a

\* C27: the question column and the option column returned are distinct:
\* column 0 and column 1 when neither was recognised, and adjacent columns
\* when exactly one was recognised.
C27_CsvColumnsDistinct ==
    cs_result # NONE =>
        /\ cs_result.q_col # cs_result.opt_col
        /\ (Recognised.q_col = <<>> /\ Recognised.opt_col = <<>>) =>
               (cs_result.q_col = <<0>> /\ cs_result.opt_col = <<1>>)
        /\ ((Recognised.q_col = <<>>) # (Recognised.opt_col = <<>>)) =>
               Distance(cs_result.q_col[1], cs_result.opt_col[1]) = 1


-----------------------------------------------------------------------------
(* POST /export-to-sheets: the results in memory, else the rows of the      *)
(* database, are handed to update_marks                                     *)

\* rows of db.get_all_results(): one of a scored sheet, one of a file the
\* legacy endpoint registered and never scored
DbRows ==
    {[student_id |-> "2021EEB0042", score |-> 100,
      feedback |-> "1 correct, 0 incorrect, 1 unattempted", details |-> <<>>],
     [student_id |-> "temp_unknown", score |-> 0,
      feedback |-> "No answer key loaded. Score: 0/0", details |-> <<>>]}

\* the dict export_to_sheets builds from a row of the database
FromRow(row) == ResultDict(row.student_id, "", row.score, row.feedback, row.details)

\* the loop over db_results: rows without a student, or of "temp_unknown", are skipped
RECURSIVE FromDatabase(_, _)
FromDatabase(rows, n) ==
    IF n = 0 THEN <<>>
    ELSE IF rows[n].student_id # "" /\ rows[n].student_id # "temp_unknown"
    THEN Append(FromDatabase(rows, n - 1), FromRow(rows[n]))
    ELSE FromDatabase(rows, n - 1)

\* results_dicts
ResultsDicts(results, rows) ==
    IF results # <<>> THEN results ELSE FromDatabase(rows, Len(rows))

\* the results of a pass as _current_results holds them, each as the dict
\* model_dump() gives
StoredResults == ExportResults \ {FromRow(row) : row \in DbRows}

MaxDbRows == 1   \* the results table holds at most MaxDbRows rows

InitExport ==
    /\ sheet_values \in Rosters
    /\ current_results \in SeqsOver(StoredResults, MaxResults)
    /\ db_results \in SeqsOver(DbRows, MaxDbRows)
    /\ results_file = NONE
    /\ um_results = <<>>
    /\ um_pc = "idle"
    /\ um_batch = <<>>
    /\ um_matched = {}
    /\ um_sent = 0
    /\ um_summary = NONE
    /\ um_error = ""
    /\ um_rerun = FALSE
    /\ um_first = <<>>
    /\ ScoreIdle
    /\ KeyIdle
    /\ IdIdle
    /\ ColIdle /\ NameIdle /\ ChunkIdle /\ NormIdle /\ PassIdle /\ CsvIdle

\* export_to_sheets up to the call of update_marks, or to its 400
ExportStart ==
    /\ um_pc = "idle"
    /\ \E results_dicts \in {ResultsDicts(current_results, db_results)} :
          IF results_dicts = <<>>
          THEN /\ response' = Respond("export-to-sheets", 400)
               /\ um_pc' = "refused"
               /\ UNCHANGED um_results
          ELSE /\ um_results' = results_dicts
               /\ um_pc' = "start"
               /\ UNCHANGED response
    /\ UNCHANGED <<current_results, sheet_values, um_batch, um_matched, um_sent, um_summary,
                   um_error, rerunVars, exportFrame>>

\* update_marks returned its summary: the results in memory are cleared
ExportReturns ==
    /\ um_pc = "returned"
    /\ current_results' = <<>>
    /\ response' = Respond("export-to-sheets", 200)
    /\ um_pc' = "exported"
    /\ UNCHANGED <<sheet_values, um_results, um_batch, um_matched, um_sent, um_summary,
                   um_error, rerunVars, exportFrame>>

\* update_marks raised: RuntimeError becomes 503, ValueError 400
ExportRaises ==
    /\ um_pc = "raised"
    /\ response' = Respond("export-to-sheets",
                           IF um_error = "Sheets service not initialized. Check credentials."
                           THEN 503 ELSE 400)
    /\ um_pc' = "failed"
    /\ UNCHANGED <<current_results, sheet_values, um_results, um_batch, um_matched, um_sent,
                   um_summary, um_error, rerunVars, exportFrame>>

NextExport ==
    \/ ExportStart
    \/ UpdateMarksNoService
    \/ UpdateMarksRaises
    \/ UpdateMarksPlan
    \/ SendChunk
    \/ SendChunkFails
    \/ ExportReturns
    \/ ExportRaises

SpecExport == InitExport /\ [][NextExport]_vars

-----------------------------------------------------------------------------
(* Claims about export_to_sheets, checked under SpecExport *)

\* the export wrote the sheet: update_marks returned and reported no error
ExportSucceeded == um_pc = "exported" /\ um_summary.errors = <<>>

ClearedOnlyOnSuccess == current_results' # current_results => ExportSucceeded'

\* C28: the results in memory are emptied only by an export that succeeded:
\* when update_marks raises, or a batch update fails and is reported in
\* summary.errors, they are left as they were.
C28_ResultsKeptOnFailedExport == [][ClearedOnlyOnSuccess]_vars


-----------------------------------------------------------------------------
(* A claim about the rows one result is written to, checked under SpecSheet *)

\* both rows get writes, and from the result at the same position
SameResultWritten(s, t) ==
    /\ MatchOf(s) # {}
    /\ MatchOf(s) = MatchOf(t)
    /\ RowWrites(s.row) # <<>>
    /\ RowWrites(t.row) # <<>>

\* C29: in one run of update_marks a result supplies the marks of at most one
\* roster row: no two rows, matched by identifier or by name, get writes
\* derived from the same result.
C29_OneRowPerResult ==
    Planned =>
        \A students \in {RosterStudents} :
            \A i \in 1..Len(students) : \A j \in 1..Len(students) :
                i < j => ~SameResultWritten(students[i], students[j])

====
